---- MODULE Spec2Model ----
(***************************************************************************)
(* Model of the resilient fetch engine of the Meta Ads MCP server:          *)
(* graphRequest (timeout, classification, retry, backoff) and the           *)
(* bulk_get_insights fan-out built on it with Promise.allSettled (Spec);    *)
(* the name post-filter of bulk_get_insights (SpecFilter); the report       *)
(* assembly of generate_report (SpecReport); pctChange (SpecPct); and       *)
(* resolveDateRange and getPreviousPeriod over JavaScript Dates (SpecDates).*)
(*                                                                          *)
(* The runtime is single threaded: a JavaScript task runs to its next       *)
(* await without interruption, so every action below is one such task.      *)
(***************************************************************************)
EXTENDS Integers, Sequences, FiniteSets, TLC

\* ---------------------------------------------------------------- constants
REQUEST_TIMEOUT_MS == 30000
MAX_RETRIES == 2
RETRY_DELAY_MS == 1000

\* ------------------------------------------------------------------- bounds
\* Largest number of object ids in one bulk_get_insights call.
MaxIds == 2

\* The object ids a caller may pass (z.string().min(1)).
IdUniverse == {"c1", "c2", "c3"}

\* HTTP statuses a response may carry: the values next to every boundary the
\* code tests (res.ok is 200..299, client errors are 400..499), and 408, the
\* status the code also gives its own timeout error.
Statuses == {200, 299, 300, 400, 408, 499, 500}

VARIABLES
    ids,        \* objectIds of the bulk_get_insights call
    retries,    \* the retries parameter of graphRequest (default MAX_RETRIES)
    hpc,        \* position of the bulk_get_insights handler
    calls,      \* one graphRequest invocation per position of ids
    output,     \* the handler's output array, <<>> until it is built
    overtaken,  \* history: some call settled while an earlier one was pending
    arg,        \* the arguments of the function or handler a specification runs
    res,        \* its result, NotRun until it has run
    rpc,        \* position of that function or handler ("off" when none runs)
    slots,      \* generate_report: the settled state of each pushed call
    cachedAccountId,  \* the module variable getAccountId caches the id in
    writes,     \* history: the values assigned to cachedAccountId, in order
    getters     \* the getAccountId invocations in flight or finished

vars == <<ids, retries, hpc, calls, output, overtaken, arg, res, rpc, slots,
          cachedAccountId, writes, getters>>

\* the initial value of cachedAccountId: null
NoAccountId == "null"

\* the variables of the account id cache
cache == <<cachedAccountId, writes, getters>>

\* the variables the bulk_get_insights fan-out leaves alone
others == <<arg, res, rpc, slots, cache>>

\* the variables of the fan-out, which the other specifications leave alone
fanout == <<ids, retries, hpc, calls, output, overtaken>>

\* the value of arg and res before the function or handler has run
NotRun == [run |-> FALSE]

NoError == [statusCode |-> -1, message |-> "none"]
NoValue == [id |-> "none", att |-> -1]

\* class ApiError: message and statusCode
ApiError(message, statusCode) == [statusCode |-> statusCode, message |-> message]

\* for (let attempt = 0; ...): the state of a graphRequest before its first task
NewCall ==
    [ pc         |-> "idle",   \* idle, fetch, body, sleep, returned, raised
      attempt    |-> 0,        \* the loop variable
      timer      |-> FALSE,    \* fetchWithTimeout's timer is armed
      aborted    |-> FALSE,    \* controller.abort() has run
      status     |-> 0,        \* res.status of this attempt's response, 0 if none
                               \* (res is dead during a backoff sleep)
      value      |-> NoValue,  \* what graphRequest returned
      error      |-> NoError,  \* what graphRequest threw
      sleeps     |-> <<>>,     \* the delays slept so far, in order
      logged     |-> <<>>,     \* the levels log() was called with in this attempt
      nFetch     |-> 0,        \* history: fetches issued
      only5xx    |-> TRUE,     \* history: every attempt so far got a status >= 500
      nRetryable |-> 0,        \* history: attempts that ended in a retryable failure
      event      |-> "none" ]  \* history: how the latest finished attempt ended

Settled(c) == c.pc \in {"returned", "raised"}

Idx == DOMAIN calls

\* ------------------------------------------------- outcomes of one attempt
\* How an attempt can end, as the environment produces it:
\*   "parsed"   a response arrived and its body parsed as json
\*   "unparsed" a response arrived and res.json() rejected
\*   "net"      fetch rejected for a reason other than the deadline abort
\*   "abort"    the deadline timer fired while fetch was pending
IsSuccess(event, status) == event = "parsed" /\ status >= 200 /\ status <= 299

IsTerminal(event, status) ==
    \/ event = "abort"
    \/ event = "parsed" /\ status >= 400 /\ status <= 499

IsRetryable(event, status) ==
    /\ event \in {"parsed", "unparsed", "net"}
    /\ ~IsSuccess(event, status)
    /\ ~IsTerminal(event, status)

\* history bookkeeping when an attempt of call c ends with the given event
Ended(c, event) ==
    [c EXCEPT !.event = event,
              !.nRetryable = IF IsRetryable(event, c.status) THEN @ + 1 ELSE @]

\* ------------------------------------------------------------ graphRequest
\* fetchWithTimeout: arm the timer and issue the request
StartAttempt(c, k) ==
    [c EXCEPT !.pc = "fetch", !.attempt = k, !.timer = TRUE, !.status = 0,
              !.nFetch = @ + 1, !.event = "none", !.logged = <<>>]

\* mutant: the same delay before every retry
BackoffDelay_constant(attempt) == RETRY_DELAY_MS

\* mutant: the delay grows from zero
BackoffDelay_fromZero(attempt) == RETRY_DELAY_MS * attempt

\* sleep(RETRY_DELAY_MS * (attempt + 1))
BackoffDelay(attempt) == RETRY_DELAY_MS * (attempt + 1)

\* mutant: every status below 400 counts as ok
ResOk_upTo399(status) == status >= 200 /\ status <= 399

\* res.ok
ResOk(status) == status >= 200 /\ status <= 299

\* mutant: the terminal class starts at 300
IsClientError_from300(status) == status >= 300 /\ status < 500

\* if (res.status >= 400 && res.status < 500) throw
IsClientError(status) == status >= 400 /\ status < 500

\* if (attempt < retries) { sleep; continue } -- otherwise the caller throws
CanRetry(attempt, r) == attempt < r

\* the retry branch shared by the !res.ok path and the catch path: with an
\* attempt left log('warn', ...) and sleep, otherwise throw
RetryOrRaise(c, r, err) ==
    IF CanRetry(c.attempt, r)
    THEN [c EXCEPT !.pc = "sleep", !.status = 0,
                   !.sleeps = Append(@, BackoffDelay(c.attempt)),
                   !.logged = Append(@, "warn")]
    ELSE [c EXCEPT !.pc = "raised", !.error = err]

\* the json a response carries: tagged with the id asked for and the attempt
JsonOf(id, attempt) == [id |-> id, att |-> attempt]

\* lines 65-81: the classification of a response whose body parsed as json
Classify(c, r, json) ==
    IF ResOk(c.status)
    THEN [c EXCEPT !.pc = "returned", !.value = json]
    ELSE LET l == [c EXCEPT !.logged = Append(@, "error")]  \* line 72
         IN IF IsClientError(c.status)
            THEN [l EXCEPT !.pc = "raised", !.error = ApiError("api", c.status)]
            ELSE RetryOrRaise(l, r, ApiError("api", c.status))

\* mutant: a rejection is thrown at once, whatever the attempt
OnReject_raise(c, r) == [c EXCEPT !.pc = "raised", !.error = ApiError("network", 0)]

\* catch (err): an ApiError is rethrown by Classify's callers; otherwise err
\* is the rejection of fetch or of res.json()
OnReject(c, r) == RetryOrRaise(c, r, ApiError("network", 0))

\* mutant: the abort falls through to the retry branch
OnAbort_retried(c, r) == RetryOrRaise(c, r, ApiError("timeout", 408))

\* catch: err is a DOMException named AbortError
OnAbort(c, r) ==
    [c EXCEPT !.pc = "raised", !.error = ApiError("timeout", 408)]

\* mutant: one controller shared by every request of the batch
AbortTargets_shared(i) == DOMAIN calls

\* the calls controller.abort() of call i reaches: its own request only
AbortTargets(i) == {i}

Overtakes(i) == \E j \in Idx : j < i /\ ~Settled(calls[j])

\* fetch resolves with a Response: finally { clearTimeout }, then res.json()
FetchResolves(i, s) ==
    /\ hpc = "awaiting"
    /\ calls[i].pc = "fetch"
    /\ calls' = [calls EXCEPT ![i] =
                   [@ EXCEPT !.pc = "body", !.timer = FALSE, !.status = s,
                             !.only5xx = @ /\ s >= 500]]
    /\ UNCHANGED <<ids, retries, hpc, output, overtaken>>
    /\ UNCHANGED others

\* fetch rejects (connection reset, DNS failure): catch, neither ApiError nor abort
FetchRejects(i) ==
    /\ hpc = "awaiting"
    /\ calls[i].pc = "fetch"
    /\ LET c == [calls[i] EXCEPT !.timer = FALSE, !.only5xx = FALSE]
           n == OnReject(Ended(c, "net"), retries)
       IN /\ calls' = [calls EXCEPT ![i] = n]
          /\ overtaken' = (overtaken \/ (Settled(n) /\ Overtakes(i)))
    /\ UNCHANGED <<ids, retries, hpc, output>>
    /\ UNCHANGED others

\* the timer fires while fetch is pending: abort, AbortError, ApiError 408
DeadlineFires(i) ==
    /\ hpc = "awaiting"
    /\ calls[i].pc = "fetch"
    /\ calls[i].timer
    /\ calls' = [j \in Idx |->
                   IF j \in AbortTargets(i) /\ calls[j].pc = "fetch"
                   THEN OnAbort(Ended([calls[j] EXCEPT !.timer = FALSE,
                                                       !.aborted = TRUE,
                                                       !.only5xx = FALSE],
                                      "abort"), retries)
                   ELSE calls[j]]
    /\ overtaken' = (overtaken \/ Overtakes(i))
    /\ UNCHANGED <<ids, retries, hpc, output>>
    /\ UNCHANGED others

\* res.json() resolves: the response is classified
BodyParsed(i) ==
    /\ hpc = "awaiting"
    /\ calls[i].pc = "body"
    /\ LET n == Classify(Ended(calls[i], "parsed"), retries,
                         JsonOf(ids[i], calls[i].attempt))
       IN /\ calls' = [calls EXCEPT ![i] = n]
          /\ overtaken' = (overtaken \/ (Settled(n) /\ Overtakes(i)))
    /\ UNCHANGED <<ids, retries, hpc, output>>
    /\ UNCHANGED others

\* res.json() rejects (body is not json, or the connection drops): catch path
BodyFails(i) ==
    /\ hpc = "awaiting"
    /\ calls[i].pc = "body"
    /\ LET n == OnReject(Ended(calls[i], "unparsed"), retries)
       IN /\ calls' = [calls EXCEPT ![i] = n]
          /\ overtaken' = (overtaken \/ (Settled(n) /\ Overtakes(i)))
    /\ UNCHANGED <<ids, retries, hpc, output>>
    /\ UNCHANGED others

\* the backoff sleep elapses: continue with attempt + 1 (attempt <= retries
\* holds, as a sleep is entered only when attempt < retries, so the throw
\* after the loop is never reached for retries >= 0)
SleepElapses(i) ==
    /\ hpc = "awaiting"
    /\ calls[i].pc = "sleep"
    /\ calls' = [calls EXCEPT ![i] = StartAttempt(@, @.attempt + 1)]
    /\ UNCHANGED <<ids, retries, hpc, output, overtaken>>
    /\ UNCHANGED others

\* -------------------------------------------------------- bulk_get_insights
\* objectIds.map((id) => graphGet(...)): every graphRequest runs to its first
\* await, so all fetches are in flight before Promise.allSettled is awaited
IssuedBy(n) == 1..n

IssueAll ==
    /\ hpc = "start"
    /\ hpc' = "awaiting"
    /\ calls' = [i \in Idx |->
                   IF i \in IssuedBy(Len(ids)) THEN StartAttempt(calls[i], 0)
                   ELSE calls[i]]
    /\ UNCHANGED <<ids, retries, output, overtaken>>
    /\ UNCHANGED others

\* r.status === 'fulfilled' ? { id, data } : { id, error: r.reason.message }
OutcomeOf(id, c) ==
    IF c.pc = "returned" THEN [id |-> id, data |-> c.value]
    ELSE [id |-> id, error |-> c.error.message]

\* mutant: only the fulfilled results make it into the output
BuildOutput_fulfilledOnly(idseq, results) ==
    LET ok == SelectSeq([i \in 1..Len(idseq) |-> i],
                        LAMBDA i : results[i].pc = "returned")
    IN [k \in 1..Len(ok) |-> OutcomeOf(idseq[ok[k]], results[ok[k]])]

\* objectIds.map((id, i) => ... results[i] ...)
BuildOutput(idseq, results) ==
    [i \in 1..Len(idseq) |-> OutcomeOf(idseq[i], results[i])]

\* Promise.allSettled resolves once every promise has settled
AllSettled == \A i \in Idx : Settled(calls[i])

\* mutant: Promise.all, which rejects when one of the promises rejects
AwaitResult_all(results) ==
    IF \E i \in DOMAIN results : results[i].pc = "raised" THEN "failed" ELSE "done"

\* Promise.allSettled never rejects: the handler goes on to build its output
AwaitResult(results) == "done"

Aggregate ==
    /\ hpc = "awaiting"
    /\ AllSettled
    /\ hpc' = AwaitResult(calls)
    /\ output' = IF hpc' = "done" THEN BuildOutput(ids, calls) ELSE <<>>
    /\ UNCHANGED <<ids, retries, calls, overtaken>>
    /\ UNCHANGED others

\* ------------------------------------------------------------ specification
\* object_ids: 1..MaxIds distinct ids. The ids are opaque to the handler
\* and to graphRequest, so of the orders of the same ids the model keeps
\* two: c1, c2, ... and its reverse.
IdSeqs ==
    UNION {{s \in [1..n -> IdUniverse] :
               \/ \A i \in 1..n : s[i] = "c" \o ToString(i)
               \/ \A i \in 1..n : s[i] = "c" \o ToString(n + 1 - i)} :
           n \in 1..MaxIds}

\* retries ranges over the values of graphRequest's parameter up to its
\* default; graphGet and graphPost pass the default, MAX_RETRIES.
Init ==
    /\ ids \in IdSeqs
    /\ retries \in 0..MAX_RETRIES
    /\ hpc = "start"
    /\ calls = [i \in 1..Len(ids) |-> NewCall]
    /\ output = <<>>
    /\ overtaken = FALSE
    /\ cachedAccountId = NoAccountId /\ writes = <<>> /\ getters = <<>>
    /\ arg = NotRun /\ res = NotRun /\ rpc = "off" /\ slots = <<>>

Next ==
    \/ IssueAll
    \/ \E i \in Idx, s \in Statuses : FetchResolves(i, s)
    \/ \E i \in Idx : FetchRejects(i)
    \/ \E i \in Idx : DeadlineFires(i)
    \/ \E i \in Idx : BodyParsed(i)
    \/ \E i \in Idx : BodyFails(i)
    \/ \E i \in Idx : SleepElapses(i)
    \/ Aggregate

Spec == Init /\ [][Next]_vars

\* ====================================================================
\* Properties
\* ====================================================================
Raised(i) == calls[i].pc = "raised"
Returned(i) == calls[i].pc = "returned"

\* the call at position i took a step
Stepped(i) == calls'[i] # calls[i]

\* --------------------------------------------------------------------- C1
\* C1: a graphRequest whose every attempt received a response with status
\* >= 500 makes exactly retries + 1 attempts and then raises an ApiError
\* that carries the status of the last response.
C1_RetryBound5xx ==
    \A i \in Idx :
        (Settled(calls[i]) /\ calls[i].only5xx) =>
            /\ Raised(i)
            /\ calls[i].nFetch = retries + 1
            /\ calls[i].error.statusCode = calls[i].status

\* --------------------------------------------------------------------- C2
\* C2: whenever the response being handled has a status in 400..499, at any
\* attempt index, graphRequest raises an ApiError with that status at once:
\* no sleep and no further attempt.
C2_ClientErrorImmediate ==
    [][\A i \in Idx :
         (/\ calls[i].pc = "body"
          /\ calls[i].status >= 400 /\ calls[i].status <= 499
          /\ Stepped(i)) =>
            /\ calls'[i].pc = "raised"
            /\ calls'[i].error.statusCode = calls[i].status
            /\ calls'[i].sleeps = calls[i].sleeps
            /\ calls'[i].nFetch = calls[i].nFetch]_vars

\* --------------------------------------------------------------------- C3
\* C3: once the deadline timer of an attempt has fired, the request is
\* aborted and graphRequest has raised the timeout ApiError (status 408),
\* whatever the value of retries and whatever the attempt index.
C3_TimeoutIsolation ==
    \A i \in Idx :
        calls[i].aborted =>
            /\ Raised(i)
            /\ calls[i].error = ApiError("timeout", 408)
            /\ ~calls[i].timer

\* a deadline that fired at a later attempt, with an attempt still to spare
C3_Witness ==
    \E i \in Idx :
        /\ calls[i].aborted /\ Raised(i)
        /\ calls[i].attempt = 1 /\ retries = MAX_RETRIES
        /\ calls[i].error.statusCode = 408

\* --------------------------------------------------------------------- C4
\* C4 as claimed: a timed-out attempt is retried, so a timeout error reaches
\* the caller only from the final attempt.
C4_TimeoutRetried ==
    \A i \in Idx :
        (Raised(i) /\ calls[i].error.statusCode = 408) =>
            calls[i].attempt = retries

\* C4 as amended: the deadline abort is terminal. The step on which the
\* deadline fires raises, adds no sleep and no attempt, and nothing happens
\* to the call afterwards, even with attempts remaining.
C4_TimeoutTerminal ==
    [][\A i \in Idx :
         calls'[i].aborted =>
            /\ calls'[i].pc = "raised"
            /\ calls'[i].sleeps = calls[i].sleeps
            /\ calls'[i].nFetch = calls[i].nFetch
            /\ calls'[i].attempt = calls[i].attempt]_vars

\* the first attempt timed out and was surfaced although two retries remained
C4_Witness ==
    \E i \in Idx :
        /\ calls[i].aborted /\ Raised(i)
        /\ calls[i].attempt = 0 /\ retries = MAX_RETRIES
        /\ calls[i].sleeps = <<>> /\ calls[i].nFetch = 1

C6_NetworkRetryable ==
    [][\A i \in Idx :
         /\ (calls[i].pc = "fetch" /\ calls'[i].event = "net") =>
               IF calls[i].attempt < retries
               THEN /\ calls'[i].pc = "sleep"
                    /\ Len(calls'[i].sleeps) = Len(calls[i].sleeps) + 1
                    /\ calls'[i].error = NoError
               ELSE /\ calls'[i].pc = "raised"
                    /\ calls'[i].error = ApiError("network", 0)
                    /\ calls'[i].sleeps = calls[i].sleeps
         /\ (calls[i].pc = "sleep" /\ Stepped(i)) =>
               /\ calls'[i].pc = "fetch"
               /\ calls'[i].attempt = calls[i].attempt + 1
               /\ calls'[i].nFetch = calls[i].nFetch + 1]_vars

\* three attempts, each ended by a rejection of fetch, then the network error
C6_Witness ==
    \E i \in Idx :
        /\ Raised(i) /\ calls[i].event = "net"
        /\ calls[i].error = ApiError("network", 0)
        /\ calls[i].nFetch = MAX_RETRIES + 1
        /\ calls[i].nRetryable = MAX_RETRIES + 1
        /\ Len(calls[i].sleeps) = MAX_RETRIES

\* --------------------------------------------------------------------- C7
\* C7: graphRequest raises only when the last attempt had a terminal outcome
\* or all retries + 1 attempts had retryable failures; when an attempt
\* succeeds after k <= retries retryable failures it returns that attempt's
\* payload; and a settled call makes no further attempt and sleeps no more.
C7_RaisesOnlyWhen ==
    /\ [](\A i \in Idx :
            /\ Raised(i) =>
                 \/ IsTerminal(calls[i].event, calls[i].status)
                 \/ /\ calls[i].nRetryable = retries + 1
                    /\ calls[i].nFetch = retries + 1
            /\ Returned(i) =>
                 /\ IsSuccess(calls[i].event, calls[i].status)
                 /\ calls[i].value = JsonOf(ids[i], calls[i].attempt)
                 /\ calls[i].nRetryable = calls[i].attempt
                 /\ calls[i].attempt <= retries
                 /\ calls[i].nFetch = calls[i].attempt + 1
                 /\ Len(calls[i].sleeps) = calls[i].attempt
                 /\ calls[i].error = NoError)
    /\ [][\A i \in Idx : Settled(calls[i]) => ~Stepped(i)]_vars

\* a success on the last attempt, after two retryable failures
C7_Witness ==
    \E i \in Idx :
        /\ Returned(i) /\ calls[i].attempt = MAX_RETRIES
        /\ calls[i].nRetryable = MAX_RETRIES
        /\ retries = MAX_RETRIES

\* --------------------------------------------------------------------- C8
\* C8: bulk_get_insights without a name filter returns one outcome per input
\* id, outcome[i] being the outcome of ids[i], in whatever order the fetches
\* settled.
C8_OutputMatchesInput ==
    hpc = "done" =>
        /\ Len(output) = Len(ids)
        /\ \A i \in 1..Len(ids) : output[i].id = ids[i]

\* a later id settled before an earlier one, and the output is built
C8_Witness ==
    /\ hpc = "done" /\ overtaken
    /\ Len(ids) >= 2 /\ Len(output) = Len(ids)

C10_Independent ==
    /\ [](hpc = "awaiting" => \A i \in Idx : calls[i].nFetch >= 1)
    /\ [](\A i \in Idx :
            (hpc = "awaiting" /\ ~Settled(calls[i])) =>
                ENABLED (FetchRejects(i) \/ BodyFails(i) \/ SleepElapses(i)))
    /\ [][hpc = "awaiting" =>
            \A i, j \in Idx : (i # j /\ Stepped(i)) => calls'[j] = calls[j]]_vars

\* one call timed out on its first attempt; its sibling went on to a third
C10_Witness ==
    \E i, j \in Idx :
        /\ i # j
        /\ Raised(i) /\ calls[i].aborted /\ calls[i].nFetch = 1
        /\ Returned(j) /\ calls[j].nFetch = MAX_RETRIES + 1

\* ====================================================================
\* bulk_get_insights: the campaign name post-filter
\* ====================================================================
\* Largest number of outcomes, of rows in one payload, and of substrings in
\* campaign_name_contains.
MaxItems == 2
MaxRows == 2
MaxFilters == 2

\* A string is a sequence of characters. Campaign names as the Graph API
\* returns them, and the substrings a caller asks for.
CampaignNames == {<<"A", "b">>, <<"b", "A">>}
FilterStrings == {<<"a", "b">>, <<"B">>}

\* insights rows: with a campaign_name, or (level adset/ad) without one
InsightRows == {[campaign_name |-> n] : n \in CampaignNames} \cup {[adset_name |-> <<"x">>]}

SeqsUpTo(S, n) == UNION {[1..k -> S] : k \in 0..n}

\* a fulfilled payload: { data: rows, ... }, or a body that has no data array
Payloads == {[data |-> rows] : rows \in SeqsUpTo(InsightRows, MaxRows)} \cup {[paging |-> "none"]}

\* what Promise.allSettled hands back for one id: the value graphRequest
\* returned or the ApiError it raised
SettledResults ==
    {[pc |-> "returned", value |-> p] : p \in Payloads}
        \cup {[pc |-> "raised", error |-> ApiError("Server error", 500)]}

\* String.prototype.toLowerCase, character by character
LowerOf(ch) == CASE ch = "A" -> "a" [] ch = "B" -> "b" [] OTHER -> ch

\* mutant: the strings are compared as they are
ToLowerCase_asIs(str) == str

ToLowerCase(str) == [k \in 1..Len(str) |-> LowerOf(str[k])]

\* String.prototype.includes
Includes(str, f) ==
    \E k \in 0..(Len(str) - Len(f)) : SubSeq(str, k + 1, k + Len(f)) = f

\* String(row.campaign_name || '')
NameOf(row) == IF "campaign_name" \in DOMAIN row THEN row.campaign_name ELSE <<>>

\* data.data.some((row) => filters.some((f) => name.includes(f)))
SomeRowMatches(rows, filters) ==
    \E r \in 1..Len(rows) : \E f \in 1..Len(filters) :
        Includes(ToLowerCase(NameOf(rows[r])), filters[f])

\* !data?.data?.length: an error item, a payload without data, or no rows
NothingToMatch(item) ==
    \/ "data" \notin DOMAIN item
    \/ "data" \notin DOMAIN item.data
    \/ Len(item.data.data) = 0

\* the callback of output.filter
KeepItem(item, filters) ==
    NothingToMatch(item) \/ SomeRowMatches(item.data.data, filters)

\* if (campaign_name_contains?.length && providedIds) output = output.filter(...)
NameFilter(out, contains) ==
    IF Len(contains) > 0
    THEN LET filters == [f \in 1..Len(contains) |-> ToLowerCase(contains[f])]
         IN SelectSeq(out, LAMBDA item : KeepItem(item, filters))
    ELSE out

\* the handler from the settled results on: map, post-filter, success(...)
BulkResponse(a) ==
    LET out == NameFilter(BuildOutput(a.object_ids, a.results), a.campaign_name_contains)
    IN [results |-> out, total |-> Len(out)]

\* explicit object_ids, their settled results and campaign_name_contains
FilterByName ==
    /\ rpc = "called"
    /\ rpc' = "done"
    /\ res' = BulkResponse(arg)
    /\ UNCHANGED <<arg, slots>>
    /\ UNCHANGED <<fanout, cache>>

InitFilter ==
    /\ \E n \in 1..MaxItems :
         \E results \in [1..n -> SettledResults] :
           \E contains \in SeqsUpTo(FilterStrings, MaxFilters) :
              arg = [object_ids |-> [i \in 1..n |-> i], results |-> results,
                     campaign_name_contains |-> contains]
    /\ res = NotRun /\ rpc = "called" /\ slots = <<>>
    /\ ids = <<>> /\ retries = MAX_RETRIES /\ hpc = "off" /\ calls = <<>>
    /\ output = <<>> /\ overtaken = FALSE
    /\ cachedAccountId = NoAccountId /\ writes = <<>> /\ getters = <<>>

NextFilter == FilterByName

SpecFilter == InitFilter /\ [][NextFilter]_vars

\* -------------------------------------------------------------------- C11
SameLetter(a, b) == a = b \/ {a, b} = {"a", "A"} \/ {a, b} = {"b", "B"}

ContainsIgnoringCase(name, f) ==
    \E k \in 0..(Len(name) - Len(f)) : \A j \in 1..Len(f) : SameLetter(name[k + j], f[j])

C11_Errored(item) == "error" \in DOMAIN item

C11_NoRows(item) ==
    ~C11_Errored(item) /\ ("data" \in DOMAIN item.data => item.data.data = <<>>)

C11_Matches(item, contains) ==
    /\ ~C11_Errored(item)
    /\ "data" \in DOMAIN item.data
    /\ \E r \in 1..Len(item.data.data), f \in 1..Len(contains) :
          ContainsIgnoringCase(NameOf(item.data.data[r]), contains[f])

C11_Keeps(item, contains) ==
    C11_Errored(item) \/ C11_NoRows(item) \/ C11_Matches(item, contains)

\* C11: with explicit ids and a non-empty name filter, the outcomes in the
\* response are exactly the outcomes that errored, returned no rows, or have
\* a row whose campaign_name contains one of the requested substrings
\* whatever the case of the letters, and they stand in their input order.
C11_NameFilter ==
    (rpc = "done" /\ Len(arg.campaign_name_contains) > 0) =>
        LET all == BuildOutput(arg.object_ids, arg.results)
            kept == {i \in 1..Len(all) : C11_Keeps(all[i], arg.campaign_name_contains)}
        IN \E pos \in [1..Len(res.results) -> 1..Len(all)] :
              /\ \A k, l \in 1..Len(res.results) : k < l => pos[k] < pos[l]
              /\ {pos[k] : k \in 1..Len(res.results)} = kept
              /\ \A k \in 1..Len(res.results) : res.results[k] = all[pos[k]]

\* an error is kept, a payload whose only name matches no substring is
\* dropped, and a payload is kept on a match that needs the case folded
C11_Witness ==
    /\ rpc = "done"
    /\ arg.campaign_name_contains = <<<<"a", "b">>>>
    /\ Len(arg.object_ids) = 2
    /\ arg.results[1].pc = "returned"
    /\ arg.results[1].value = [data |-> <<[campaign_name |-> <<"b", "A">>]>>]
    /\ arg.results[2].pc = "returned"
    /\ arg.results[2].value = [data |-> <<[adset_name |-> <<"x">>], [campaign_name |-> <<"A", "b">>]>>]
    /\ res.total = 1
    /\ res.results[1].id = 2

\* ====================================================================
\* pctChange
\* ====================================================================
\* A number is held as its count of hundredths (12000 is 120, -5 is -0.05):
\* every metric pctChange is given was rounded to two decimals or is a count.
\* Magnitudes below MaxHundredths, and the values 50, 100 and 120.
MaxHundredths == 16

Numbers == (-MaxHundredths..MaxHundredths) \cup {5000, 10000, 12000}

Abs(n) == IF n < 0 THEN -n ELSE n

\* mutant: the quotient is cut off below instead of rounded
MathRound_floor(n, m) ==
    IF m > 0 THEN n \div m ELSE (-n) \div (-m)

\* Math.round(n / m), m # 0: the nearest integer, a half going up
MathRound(n, m) ==
    IF m > 0 THEN (2 * n + m) \div (2 * m) ELSE (2 * (-n) + (-m)) \div (2 * (-m))

\* `${x}` for the number n / scale, scale 10 or 100: the shortest decimal
\* notation, no trailing zeros, "0" for both zeros
NumToString(n, scale) ==
    LET a == Abs(n)
        frac == a % scale
        digits == IF frac = 0 THEN ""
                  ELSE IF scale = 10 THEN "." \o ToString(frac)
                  ELSE IF frac % 10 = 0 THEN "." \o ToString(frac \div 10)
                  ELSE IF frac < 10 THEN ".0" \o ToString(frac)
                  ELSE "." \o ToString(frac)
    IN (IF n < 0 THEN "-" ELSE "") \o ToString(a \div scale) \o digits

\* mutant: zero carries no sign
SignOf_positiveOnly(d) == IF d > 0 THEN "+" ELSE ""

\* const sign = d >= 0 ? '+' : ''
SignOf(d) == IF d >= 0 THEN "+" ELSE ""

\* previous !== 0 ? Math.round((d / previous) * 1000) / 10 : (current > 0 ? 100 : 0),
\* as a count of tenths
PctTenths(current, previous) ==
    IF previous # 0 THEN MathRound(1000 * (current - previous), previous)
    ELSE IF current > 0 THEN 1000 ELSE 0

\* Math.round(d * 100) / 100 of a count of hundredths is that count
pctChange(current, previous) ==
    LET d == current - previous
    IN [delta |-> SignOf(d) \o NumToString(d, 100),
        pct |-> SignOf(d) \o NumToString(PctTenths(current, previous), 10) \o "%"]

CallPctChange ==
    /\ rpc = "called"
    /\ rpc' = "done"
    /\ res' = pctChange(arg.current, arg.previous)
    /\ UNCHANGED <<arg, slots>>
    /\ UNCHANGED <<fanout, cache>>

InitPct ==
    /\ arg \in [current : Numbers, previous : Numbers]
    /\ res = NotRun /\ rpc = "called" /\ slots = <<>>
    /\ ids = <<>> /\ retries = MAX_RETRIES /\ hpc = "off" /\ calls = <<>>
    /\ output = <<>> /\ overtaken = FALSE
    /\ cachedAccountId = NoAccountId /\ writes = <<>> /\ getters = <<>>

NextPct == CallPctChange

SpecPct == InitPct /\ [][NextPct]_vars

\* -------------------------------------------------------------------- C16
\* C16 as stated: pctChange(120, 100) = {"+20", "+20%"}, pctChange(0, 0) =
\* {"0", "0%"} and pctChange(50, 0) = {"+50", "+100%"}.
C16_FixturesAsStated ==
    rpc = "done" =>
        /\ arg = [current |-> 12000, previous |-> 10000] => res = [delta |-> "+20", pct |-> "+20%"]
        /\ arg = [current |-> 0, previous |-> 0] => res = [delta |-> "0", pct |-> "0%"]
        /\ arg = [current |-> 5000, previous |-> 0] => res = [delta |-> "+50", pct |-> "+100%"]

\* C16, amended: pctChange(120, 100) = {"+20", "+20%"}, pctChange(0, 0) =
\* {"+0", "+0%"} (a zero difference is non-negative and carries the sign) and
\* pctChange(50, 0) = {"+50", "+100%"}.
C16_Fixtures ==
    rpc = "done" =>
        /\ arg = [current |-> 12000, previous |-> 10000] => res = [delta |-> "+20", pct |-> "+20%"]
        /\ arg = [current |-> 0, previous |-> 0] => res = [delta |-> "+0", pct |-> "+0%"]
        /\ arg = [current |-> 5000, previous |-> 0] => res = [delta |-> "+50", pct |-> "+100%"]

C16_Witness ==
    rpc = "done" /\ arg = [current |-> 0, previous |-> 0] /\ res.delta = "+0"

\* -------------------------------------------------------------------- C17
\* C17: pctChange is defined for all values; with previous = 0 the percentage
\* is 100 when current > 0 and 0 otherwise; with previous # 0 it is a
\* one-decimal number nearest to (current - previous) / previous * 100; delta
\* and pct start with "+" exactly when current - previous >= 0.
C17_PctChange ==
    rpc = "done" =>
        LET c == arg.current
            p == arg.previous
            d == c - p
            plus == IF d >= 0 THEN "+" ELSE ""
            \* floor of 1000 * d / p
            q == IF p > 0 THEN (1000 * d) \div p ELSE (-1000 * d) \div (-p)
        IN /\ res.delta = plus \o NumToString(d, 100)
           /\ p = 0 => res.pct = plus \o (IF c > 0 THEN "100" ELSE "0") \o "%"
           /\ p # 0 => \E t \in {q, q + 1} :
                          /\ 2 * Abs(t * p - 1000 * d) <= Abs(p)
                          /\ res.pct = plus \o NumToString(t, 10) \o "%"

\* a quotient that ends on a half (-0.01 / 0.16 = -6.25%) and is rounded
C17_Witness ==
    rpc = "done" /\ arg = [current |-> 15, previous |-> 16] /\ res.pct = "-6.2%"

\* ====================================================================
\* resolveDateRange and getPreviousPeriod
\* ====================================================================
\* An instant (the time value of a Date) is a whole number of hours since
\* 1970-01-01T00:00Z. A date string "YYYY-MM-DD" is the record of its year,
\* month and day.
\* The largest N of a last_<N>d string, and the longest explicit range in days.
MaxN == 3
MaxDays == 3

\* Day number (days since 1970-01-01) of a date of the proleptic Gregorian
\* calendar, and the date of a day number: the calendar of ECMAScript's
\* MakeDay and of toISOString.
DaysFromCivil(y, m, d) ==
    LET yy == IF m <= 2 THEN y - 1 ELSE y
        era == yy \div 400
        yoe == yy - era * 400
        doy == (153 * (IF m > 2 THEN m - 3 ELSE m + 9) + 2) \div 5 + d - 1
        doe == yoe * 365 + yoe \div 4 - yoe \div 100 + doy
    IN era * 146097 + doe - 719468

CivilFromDays(z) ==
    LET zz == z + 719468
        era == zz \div 146097
        doe == zz - era * 146097
        yoe == (doe - doe \div 1460 + doe \div 36524 - doe \div 146096) \div 365
        doy == doe - (365 * yoe + yoe \div 4 - yoe \div 100)
        mp == (5 * doy + 2) \div 153
        m == IF mp < 10 THEN mp + 3 ELSE mp - 9
    IN [year |-> yoe + era * 400 + (IF m <= 2 THEN 1 ELSE 0),
        month |-> m,
        day |-> doy - (153 * mp + 2) \div 5 + 1]

DayOf(date) == DaysFromCivil(date.year, date.month, date.day)

\* the instant of 00:00Z on a date plus h hours
At(y, m, d, h) == 24 * DaysFromCivil(y, m, d) + h

\* The process time zone (TZ): the standard offset from UTC in hours and the
\* instants between which daylight-saving time adds one hour.
NoDst == [from |-> 0, to |-> 0]

Zones ==
    {[name |-> "UTC", std |-> 0, dst |-> NoDst],
     [name |-> "America/Bogota", std |-> -5, dst |-> NoDst],
     [name |-> "Australia/Brisbane", std |-> 10, dst |-> NoDst],
     [name |-> "America/New_York", std |-> -5,
      dst |-> [from |-> At(2025, 3, 9, 7), to |-> At(2025, 11, 2, 6)]],
     [name |-> "Europe/Berlin", std |-> 1,
      dst |-> [from |-> At(2025, 3, 30, 1), to |-> At(2025, 10, 26, 1)]],
     [name |-> "Australia/Sydney", std |-> 10,
      dst |-> [from |-> At(2024, 10, 5, 16), to |-> At(2025, 4, 5, 16)]]}

InDst(zone, t) == zone.dst.from <= t /\ t < zone.dst.to

\* LocalTime(t): the wall clock of the zone at instant t, in hours
LocalTime(zone, t) == t + zone.std + (IF InDst(zone, t) THEN 1 ELSE 0)

\* UTC(wall): the instant of a wall clock time; a wall clock time that is
\* repeated or skipped at a transition is read with the offset in force
\* before the transition
UTC(zone, wall) ==
    IF InDst(zone, wall - zone.std - 1) THEN wall - zone.std - 1 ELSE wall - zone.std

\* d.setDate(d.getDate() + k): k days later on the local calendar, at the
\* same wall clock time
SetDate(zone, t, k) == UTC(zone, LocalTime(zone, t) + 24 * k)

\* d.getDay(): the local day of the week, 0 = Sunday (1970-01-01 was a Thursday)
GetDay(zone, t) == ((LocalTime(zone, t) \div 24) + 4) % 7

\* new Date(d.getFullYear(), d.getMonth() + dm, day): local midnight; a month
\* before January and a day 0 are carried into the year and month before
LocalDate(zone, t, dm, day) ==
    LET c == CivilFromDays(LocalTime(zone, t) \div 24)
        y == IF c.month + dm < 1 THEN c.year - 1 ELSE c.year
        m == IF c.month + dm < 1 THEN c.month + dm + 12 ELSE c.month + dm
    IN UTC(zone, 24 * (DaysFromCivil(y, m, 1) + day - 1))

\* const fmt = (d) => d.toISOString().slice(0, 10): the UTC date of an instant
fmt(t) == CivilFromDays(t \div 24)

\* new Date("YYYY-MM-DD"): a date-only string is read as 00:00 UTC
ParseDate(date) == 24 * DayOf(date)

\* the symbolic strings: the presets, the last_<N>d family (with a form the
\* pattern does not accept) and a string that names nothing
Presets == {"today", "yesterday", "this_week", "last_week", "this_month", "last_month"}

LastNd(n) == "last_" \o ToString(n) \o "d"

TimeRangeStrings == Presets \cup {LastNd(n) : n \in 0..MaxN} \cup {"last_7d", "last_d", "lifetime"}

\* timeRange.match(/^last_(\d+)d$/), parseInt(match[1], 10); -1 without a match
MatchLastNd(str) ==
    IF \E n \in 0..(MaxN + 7) : str = LastNd(n)
    THEN CHOOSE n \in 0..(MaxN + 7) : str = LastNd(n)
    ELSE -1

\* a time_range argument is a symbolic string or an object {since, until}
Symbolic(str) == [symbol |-> str]

resolveDateRange(time_range, today, zone) ==
    IF "since" \in DOMAIN time_range THEN time_range
    ELSE LET timeRange == time_range.symbol IN
         CASE timeRange = "today" -> [since |-> fmt(today), until |-> fmt(today)]
         [] timeRange = "yesterday" ->
              LET d == SetDate(zone, today, -1) IN [since |-> fmt(d), until |-> fmt(d)]
         [] timeRange = "this_week" ->
              LET dow == GetDay(zone, today)
                  mon == SetDate(zone, today, -(IF dow = 0 THEN 6 ELSE dow - 1))
              IN [since |-> fmt(mon), until |-> fmt(today)]
         [] timeRange = "last_week" ->
              LET dow == GetDay(zone, today)
                  mon == SetDate(zone, today, -(IF dow = 0 THEN 6 ELSE dow - 1) - 7)
                  sun == SetDate(zone, mon, 6)
              IN [since |-> fmt(mon), until |-> fmt(sun)]
         [] timeRange = "this_month" ->
              [since |-> fmt(LocalDate(zone, today, 0, 1)), until |-> fmt(today)]
         [] timeRange = "last_month" ->
              [since |-> fmt(LocalDate(zone, today, -1, 1)),
               until |-> fmt(LocalDate(zone, today, 0, 0))]
         [] OTHER ->
              LET n == MatchLastNd(timeRange)
                  days == IF n >= 0 THEN n ELSE 7
                  until == SetDate(zone, today, -1)
                  since == SetDate(zone, until, -days + 1)
              IN [since |-> fmt(since), until |-> fmt(until)]

getPreviousPeriod(since, until, zone) ==
    LET s == ParseDate(since)
        u == ParseDate(until)
        days == MathRound(u - s, 24) + 1
        prevUntil == SetDate(zone, s, -1)
        prevSince == SetDate(zone, prevUntil, -days + 1)
    IN [since |-> fmt(prevSince), until |-> fmt(prevUntil)]

\* the days the clock is read on and explicit ranges start on
Anchors == DaysFromCivil(2025, 3, 1)..DaysFromCivil(2025, 4, 13)

ExplicitRanges ==
    {[since |-> CivilFromDays(a), until |-> CivilFromDays(a + n - 1)] :
        a \in Anchors, n \in 1..MaxDays}

CallResolveDateRange ==
    /\ rpc = "called"
    /\ arg.fn = "resolveDateRange"
    /\ rpc' = "done"
    /\ res' = resolveDateRange(arg.time_range, arg.now, arg.zone)
    /\ UNCHANGED <<arg, slots>>
    /\ UNCHANGED <<fanout, cache>>

CallGetPreviousPeriod ==
    /\ rpc = "called"
    /\ arg.fn = "getPreviousPeriod"
    /\ rpc' = "done"
    /\ res' = getPreviousPeriod(arg.since, arg.until, arg.zone)
    /\ UNCHANGED <<arg, slots>>
    /\ UNCHANGED <<fanout, cache>>

InitDates ==
    /\ \/ \E tr \in {Symbolic(str) : str \in TimeRangeStrings}
                       \cup {[since |-> CivilFromDays(a), until |-> CivilFromDays(a)] : a \in Anchors} :
            \E a \in Anchors, h \in 0..23, zone \in Zones :
               arg = [fn |-> "resolveDateRange", time_range |-> tr, now |-> 24 * a + h, zone |-> zone]
       \/ \E r \in ExplicitRanges, zone \in Zones :
            arg = [fn |-> "getPreviousPeriod", since |-> r.since, until |-> r.until, zone |-> zone]
    /\ res = NotRun /\ rpc = "called" /\ slots = <<>>
    /\ ids = <<>> /\ retries = MAX_RETRIES /\ hpc = "off" /\ calls = <<>>
    /\ output = <<>> /\ overtaken = FALSE
    /\ cachedAccountId = NoAccountId /\ writes = <<>> /\ getters = <<>>

NextDates ==
    \/ CallResolveDateRange
    \/ CallGetPreviousPeriod

SpecDates == InitDates /\ [][NextDates]_vars

\* -------------------------------------------------------------------- C18
\* C18: for every range with since <= until and every process time zone,
\* daylight-saving transitions included, getPreviousPeriod returns a range
\* of the same number of days whose until is the day before since.
C18_PreviousPeriodAdjacent ==
    (rpc = "done" /\ arg.fn = "getPreviousPeriod" /\ DayOf(arg.since) <= DayOf(arg.until)) =>
        /\ DayOf(res.until) = DayOf(arg.since) - 1
        /\ DayOf(res.until) - DayOf(res.since) = DayOf(arg.until) - DayOf(arg.since)

\* -------------------------------------------------------------------- C19
\* C19: for last_<N>d, and for an unrecognized string with N = 7,
\* resolveDateRange returns until = today - 1 and since = until - (N - 1),
\* today being the date resolveDateRange('today') gives at the same instant.
C19_LastNDays ==
    (rpc = "done" /\ arg.fn = "resolveDateRange"
        /\ "symbol" \in DOMAIN arg.time_range /\ arg.time_range.symbol \notin Presets) =>
        LET str == arg.time_range.symbol
            n == IF \E k \in 0..(MaxN + 7) : str = "last_" \o ToString(k) \o "d"
                 THEN CHOOSE k \in 0..(MaxN + 7) : str = "last_" \o ToString(k) \o "d"
                 ELSE 7
            today == DayOf(fmt(arg.now))
        IN /\ DayOf(res.until) = today - 1
           /\ DayOf(res.since) = DayOf(res.until) - (n - 1)

\* -------------------------------------------------------------------- C20
\* C20: this_week runs from the Monday of the current week to today, and
\* last_week is the Monday..Sunday before it, ending the day before that
\* Monday; today is the date resolveDateRange('today') gives.
C20_Weeks ==
    (rpc = "done" /\ arg.fn = "resolveDateRange") =>
        LET today == DayOf(fmt(arg.now))
            \* days since the last Monday (1970-01-01 was a Thursday)
            monday == today - ((today + 3) % 7)
        IN /\ arg.time_range = Symbolic("this_week") =>
                DayOf(res.since) = monday /\ DayOf(res.until) = today
           /\ arg.time_range = Symbolic("last_week") =>
                DayOf(res.since) = monday - 7 /\ DayOf(res.until) = monday - 1

\* ====================================================================
\* generate_report
\* ====================================================================
\* null
Null == [null |-> TRUE]

\* Insights rows as the Graph API returns them. spend is the number the
\* string parses to, as a count of thousandths (2504 is "2.504");
\* impressions is the integer its string parses to.
AccountRows == {[spend |-> 3500, impressions |-> 30]}
DailyRows == {[date_start |-> [year |-> 2025, month |-> 3, day |-> 8], spend |-> 3500, impressions |-> 30]}
PrevAccountRows == {[spend |-> 1200, impressions |-> 0]}

CampaignRows ==
    {[campaign_id |-> "1", campaign_name |-> <<"A", "b">>, spend |-> 1000, impressions |-> 10],
     [campaign_id |-> "2", campaign_name |-> <<"b", "A">>, spend |-> 2504, impressions |-> 20],
     [campaign_id |-> "3", campaign_name |-> <<"A", "b">>, spend |-> 4, impressions |-> 0]}

PrevCampaignRows ==
    {[campaign_id |-> "1", campaign_name |-> <<"A", "b">>, spend |-> 500, impressions |-> 10],
     [campaign_id |-> "9", campaign_name |-> <<"b">>, spend |-> 700, impressions |-> 5]}

\* the rows call k of generate_report may be answered with: the account
\* level calls return at most one row
RowLists(k) ==
    CASE k = 1 -> SeqsUpTo(AccountRows, 1)
      [] k = 2 -> SeqsUpTo(CampaignRows, MaxRows)
      [] k = 3 -> SeqsUpTo(DailyRows, 1)
      [] k = 4 -> SeqsUpTo(PrevAccountRows, 1)
      [] k = 5 -> SeqsUpTo(PrevCampaignRows, MaxRows)

\* how a graphGet settles: fulfilled with a payload (with or without a data
\* array) or rejected with the ApiError graphRequest raised
SettledAs(k) ==
    {[state |-> "fulfilled", value |-> [data |-> rows]] : rows \in RowLists(k)}
        \cup {[state |-> "fulfilled", value |-> [paging |-> "none"]],
              [state |-> "rejected", value |-> ApiError("Server error", 500)]}

\* calcDerivedMetrics, for the two fields the rows above carry, as counts of
\* hundredths: spend: Math.round(spend * 100) / 100, impressions: parseInt
calcDerivedMetrics(row) ==
    [spend |-> MathRound(row.spend, 10), impressions |-> 100 * row.impressions]

\* the metrics of the per-campaign comparison among those two
ComparedMetrics == {"spend", "impressions"}

\* changes[m] = pctChange(cur[m] || 0, prev[m] || 0) for each metric
Changes(cur, prev) == [m \in ComparedMetrics |-> pctChange(cur[m], prev[m])]

\* extract: r.status === 'fulfilled' ? (r.value?.data || []) : []
Extract(slot) ==
    IF slot.state = "fulfilled" /\ "data" \in DOMAIN slot.value THEN slot.value.data ELSE <<>>

\* mutant: the campaigns stay in the order they were fetched in
SortBySpend_asFetched(seq) == seq

\* campaigns.sort((a, b) => b.spend - a.spend): descending, stable
RECURSIVE SortBySpend(_)
SortBySpend(seq) ==
    IF Len(seq) <= 1 THEN seq
    ELSE LET h == Head(seq)
             rest == SortBySpend(Tail(seq))
         IN SelectSeq(rest, LAMBDA e : e.spend > h.spend) \o <<h>>
                \o SelectSeq(rest, LAMBDA e : e.spend <= h.spend)

\* the campaign breakdown: map, name filter, spend > 0, sort
Campaigns(campaignData, contains) ==
    LET mapped == [i \in 1..Len(campaignData) |->
                     [campaign_id |-> campaignData[i].campaign_id,
                      campaign_name |-> campaignData[i].campaign_name,
                      spend |-> calcDerivedMetrics(campaignData[i]).spend,
                      impressions |-> calcDerivedMetrics(campaignData[i]).impressions]]
        filters == [f \in 1..Len(contains) |-> ToLowerCase(contains[f])]
        named == IF Len(contains) > 0
                 THEN SelectSeq(mapped, LAMBDA c :
                        \E f \in 1..Len(filters) : Includes(ToLowerCase(c.campaign_name), filters[f]))
                 ELSE mapped
    IN SortBySpend(SelectSeq(named, LAMBDA c : c.spend > 0))

\* prevMap.get(String(c.campaign_id)): the last previous row with that id
PrevOf(prevCampaignData, id) ==
    LET at == {i \in 1..Len(prevCampaignData) : prevCampaignData[i].campaign_id = id}
    IN IF at = {} THEN Null
       ELSE calcDerivedMetrics(prevCampaignData[CHOOSE i \in at : \A j \in at : j <= i])

\* the per-campaign comparison: only when compare_previous is set and the
\* previous breakdown has rows; otherwise the campaigns as they are
WithComparison(campaigns, prevCampaignData, compare_previous) ==
    IF compare_previous /\ Len(prevCampaignData) > 0
    THEN [i \in 1..Len(campaigns) |->
            LET c == campaigns[i]
                prev == PrevOf(prevCampaignData, c.campaign_id)
            IN [campaign_id |-> c.campaign_id, campaign_name |-> c.campaign_name,
                spend |-> c.spend, impressions |-> c.impressions,
                vs_previous |-> IF prev = Null THEN Null ELSE Changes(c, prev)]]
    ELSE campaigns

\* the report built from the settled calls (generated_at, the clock reading,
\* and the fixed commentary text are left out)
BuildReport(a, settled) ==
    LET currentRange == resolveDateRange(a.time_range, a.now, a.zone)
        accountData == Extract(settled[1])
        campaignData == Extract(settled[2])
        dailyData == Extract(settled[3])
        prevAccountData == IF a.compare_previous THEN Extract(settled[4]) ELSE <<>>
        prevCampaignData == IF a.compare_previous THEN Extract(settled[5]) ELSE <<>>
        accountSummary == IF Len(accountData) > 0 THEN calcDerivedMetrics(accountData[1]) ELSE Null
        campaigns == Campaigns(campaignData, a.campaign_name_contains)
    IN [period |-> currentRange,
        account_summary |-> accountSummary,
        daily_breakdown |-> [i \in 1..Len(dailyData) |->
                               [date |-> dailyData[i].date_start,
                                spend |-> calcDerivedMetrics(dailyData[i]).spend,
                                impressions |-> calcDerivedMetrics(dailyData[i]).impressions]],
        period_comparison |->
            IF a.compare_previous /\ Len(prevAccountData) > 0 /\ accountSummary # Null
            THEN LET prevSummary == calcDerivedMetrics(prevAccountData[1])
                 IN [this_period |-> [range |-> currentRange, metrics |-> accountSummary],
                     previous_period |-> [range |-> getPreviousPeriod(currentRange.since, currentRange.until, a.zone),
                                          metrics |-> prevSummary],
                     changes |-> Changes(accountSummary, prevSummary)]
            ELSE Null,
        by_campaign |-> WithComparison(campaigns, prevCampaignData, a.compare_previous)]

\* mutant: the comparison calls ask for the current range again
PushedCalls_sameRange(a) ==
    LET currentRange == resolveDateRange(a.time_range, a.now, a.zone)
        call(level, inc) ==
            [level |-> level, time_range |-> currentRange, time_increment |-> inc,
             state |-> "pending", value |-> Null]
    IN <<call("account", 0), call("campaign", 0), call("account", 1)>>
        \o (IF a.compare_previous
            THEN <<call("account", 0), call("campaign", 0)>>
            ELSE <<>>)

\* the calls pushed before the await: account summary, campaign breakdown,
\* daily breakdown and, with compare_previous, the same two for the period before
PushedCalls(a) ==
    LET currentRange == resolveDateRange(a.time_range, a.now, a.zone)
        prevRange == getPreviousPeriod(currentRange.since, currentRange.until, a.zone)
        call(level, range, inc) ==
            [level |-> level, time_range |-> range, time_increment |-> inc,
             state |-> "pending", value |-> Null]
    IN <<call("account", currentRange, 0), call("campaign", currentRange, 0),
         call("account", currentRange, 1)>>
        \o (IF a.compare_previous
            THEN <<call("account", prevRange, 0), call("campaign", prevRange, 0)>>
            ELSE <<>>)

\* await getAccountId() returns: the calls are pushed and allSettled awaited
AccountResolved ==
    /\ rpc = "start"
    /\ rpc' = "awaiting"
    /\ slots' = PushedCalls(arg)
    /\ UNCHANGED <<arg, res>>
    /\ UNCHANGED <<fanout, cache>>

\* await getAccountId() raises: the handler raises with it, before any call
AccountFails ==
    /\ rpc = "start"
    /\ rpc' = "failed"
    /\ res' = [error |-> ApiError("No ad accounts found for this access token", 403)]
    /\ UNCHANGED <<arg, slots>>
    /\ UNCHANGED <<fanout, cache>>

\* one of the pushed graphGet calls settles
CallSettles(k, how) ==
    /\ rpc = "awaiting"
    /\ slots[k].state = "pending"
    /\ slots' = [slots EXCEPT ![k].state = how.state, ![k].value = how.value]
    /\ UNCHANGED <<arg, res, rpc>>
    /\ UNCHANGED <<fanout, cache>>

\* mutant: Promise.all, which rejects when one of the calls rejects
AwaitCalls_all(settled) ==
    IF \E k \in DOMAIN settled : settled[k].state = "rejected" THEN "failed" ELSE "done"

\* await Promise.allSettled(calls) never rejects
AwaitCalls(settled) == "done"

\* the continuation after the await: extract, assemble, return success(report)
Assemble ==
    /\ rpc = "awaiting"
    /\ \A k \in DOMAIN slots : slots[k].state # "pending"
    /\ rpc' = AwaitCalls(slots)
    /\ res' = IF rpc' = "done" THEN BuildReport(arg, slots)
              ELSE [error |-> (slots[CHOOSE k \in DOMAIN slots : slots[k].state = "rejected"]).value]
    /\ UNCHANGED <<arg, slots>>
    /\ UNCHANGED <<fanout, cache>>

\* campaign_name_contains: absent, or a list of substrings
ReportFilters == {<<>>, <<<<"a", "b">>>>, <<<<"B">>>>}

InitReport ==
    /\ \E cp \in BOOLEAN, contains \in ReportFilters :
          arg = [time_range |-> [since |-> [year |-> 2025, month |-> 3, day |-> 8],
                                 until |-> [year |-> 2025, month |-> 3, day |-> 14]],
                 compare_previous |-> cp,
                 campaign_name_contains |-> contains,
                 now |-> At(2025, 3, 15, 12),
                 zone |-> CHOOSE z \in Zones : z.name = "UTC"]
    /\ res = NotRun /\ rpc = "start" /\ slots = <<>>
    /\ ids = <<>> /\ retries = MAX_RETRIES /\ hpc = "off" /\ calls = <<>>
    /\ output = <<>> /\ overtaken = FALSE
    /\ cachedAccountId = NoAccountId /\ writes = <<>> /\ getters = <<>>

NextReport ==
    \/ AccountResolved
    \/ AccountFails
    \/ \E k \in DOMAIN slots : \E how \in SettledAs(k) : CallSettles(k, how)
    \/ Assemble

SpecReport == InitReport /\ [][NextReport]_vars

\* -------------------------------------------------------------------- C12
\* a call that failed, or whose payload has no data array, read as a call
\* that returned no rows
C12_AsEmpty(slot) ==
    IF slot.state = "rejected" \/ "data" \notin DOMAIN slot.value
    THEN [slot EXCEPT !.state = "fulfilled", !.value = [data |-> <<>>]]
    ELSE slot

\* C12: once the sub-fetches are issued the report is never aborted,
\* whichever of them fail: the step taken when all have settled returns the
\* report, which is the report of the same calls with every failed or absent
\* one answered by an empty row list, and period_comparison is null whenever
\* the previous-period aggregate failed or returned no rows.
C12_FailuresDegrade ==
    /\ [](rpc = "failed" => slots = <<>>)
    /\ [](rpc = "done" =>
            /\ res = BuildReport(arg, [k \in DOMAIN slots |-> C12_AsEmpty(slots[k])])
            /\ (arg.compare_previous /\ C12_AsEmpty(slots[4]).value.data = <<>>)
                  => res.period_comparison = Null)
    /\ [][(rpc = "awaiting" /\ \A k \in DOMAIN slots : slots[k].state # "pending")
            => rpc' = "done"]_vars

\* every call of a compare_previous report was rejected and the report is
\* returned, empty
C12_Witness ==
    /\ rpc = "done"
    /\ Len(slots) = 5
    /\ \A k \in DOMAIN slots : slots[k].state = "rejected"
    /\ res.account_summary = Null /\ res.period_comparison = Null
    /\ res.daily_breakdown = <<>> /\ res.by_campaign = <<>>

\* -------------------------------------------------------------------- C13
\* C13: when the current-period aggregate call fails, generate_report fails
\* with that error and returns no report.
C13_RequiredFetchPropagates ==
    rpc = "done" => slots[1].state # "rejected"

\* -------------------------------------------------------------------- C14
\* C14: every by_campaign entry has spend > 0 (the spend the report shows,
\* rounded to cents), the entries are in non-increasing order of spend, with
\* a name filter every entry's name contains a requested substring whatever
\* the case, and every fetched campaign row with these properties is there.
C14_ByCampaign ==
    rpc = "done" =>
        LET list == res.by_campaign
            fetched == Extract(slots[2])
            contains == arg.campaign_name_contains
            cents(row) == (row.spend + 5) \div 10
            named(name) == Len(contains) > 0 =>
                              \E f \in 1..Len(contains) : ContainsIgnoringCase(name, contains[f])
            due == {r \in 1..Len(fetched) : cents(fetched[r]) > 0 /\ named(fetched[r].campaign_name)}
        IN /\ \A i \in 1..Len(list) : list[i].spend > 0 /\ named(list[i].campaign_name)
           /\ \A i, j \in 1..Len(list) : i < j => list[i].spend >= list[j].spend
           /\ Len(list) = Cardinality(due)
           /\ \A r \in due :
                 Cardinality({i \in 1..Len(list) :
                                 /\ list[i].campaign_id = fetched[r].campaign_id
                                 /\ list[i].campaign_name = fetched[r].campaign_name
                                 /\ list[i].spend = cents(fetched[r])})
                    = Cardinality({q \in due :
                                 /\ fetched[q].campaign_id = fetched[r].campaign_id
                                 /\ fetched[q].campaign_name = fetched[r].campaign_name
                                 /\ cents(fetched[q]) = cents(fetched[r])})

\* fetched in ascending order of spend, listed in descending order
C14_Witness ==
    /\ rpc = "done"
    /\ arg.campaign_name_contains = <<<<"B">>>>
    /\ Len(Extract(slots[2])) = 2
    /\ Extract(slots[2])[1].campaign_id = "1" /\ Extract(slots[2])[2].campaign_id = "2"
    /\ Len(res.by_campaign) = 2
    /\ res.by_campaign[1].campaign_id = "2" /\ res.by_campaign[1].spend = 250
    /\ res.by_campaign[2].campaign_id = "1"

\* -------------------------------------------------------------------- C15
\* C15: with compare_previous, every campaign that passed the filters is in
\* by_campaign with a comparison field, which is a per-metric map when the
\* previous-period breakdown has a row with its campaign_id and null
\* otherwise, whatever that breakdown holds, empty and failed included.
C15_EveryEntityCompared ==
    (rpc = "done" /\ arg.compare_previous) =>
        LET list == res.by_campaign
            current == Campaigns(Extract(slots[2]), arg.campaign_name_contains)
            previous == Extract(slots[5])
        IN /\ Len(list) = Len(current)
           /\ \A i \in 1..Len(list) :
                 /\ list[i].campaign_id = current[i].campaign_id
                 /\ "vs_previous" \in DOMAIN list[i]
                 /\ (\E j \in 1..Len(previous) : previous[j].campaign_id = list[i].campaign_id)
                       <=> list[i].vs_previous # Null

\* -------------------------------------------------------------------- C21
\* C21: this_month runs from the 1st of the current month to today, and
\* last_month from the 1st to the last day of the month before; today is the
\* date resolveDateRange('today') gives at the same instant.
C21_Months ==
    (rpc = "done" /\ arg.fn = "resolveDateRange") =>
        LET today == fmt(arg.now)
            first == DaysFromCivil(today.year, today.month, 1)
            before == CivilFromDays(first - 1)
        IN /\ arg.time_range = Symbolic("this_month") =>
                DayOf(res.since) = first /\ res.until = today
           /\ arg.time_range = Symbolic("last_month") =>
                /\ res.since = [year |-> before.year, month |-> before.month, day |-> 1]
                /\ DayOf(res.until) = first - 1

\* -------------------------------------------------------------------- C22
\* C22: every range resolveDateRange returns, for a symbolic string or an
\* explicit range, and every range getPreviousPeriod returns, has
\* since <= until.
C22_SinceBeforeUntil ==
    rpc = "done" /\ arg.fn \in {"resolveDateRange", "getPreviousPeriod"} =>
        DayOf(res.since) <= DayOf(res.until)

\* ====================================================================
\* calcDerivedMetrics and stripRedundantActions on rows of any JSON shape
\* ====================================================================
\* A JavaScript value is a record of its type t and its value v. A string is
\* a TLA+ string; a number is its count of thousandths (12500 is 12.5), and
\* NaN is a value of its own; an array holds a sequence and an object a
\* record. A property that is absent reads as Undefined.
Undefined == [t |-> "undefined"]
JsNull == [t |-> "null"]
NaN == [t |-> "NaN"]
Threw == [t |-> "TypeError"]
Str(s) == [t |-> "string", v |-> s]
Num(n) == [t |-> "number", v |-> n]
Arr(items) == [t |-> "array", v |-> items]
Obj(o) == [t |-> "object", v |-> o]

\* row[key]
Get(row, key) == IF key \in DOMAIN row THEN row[key] ELSE Undefined

\* ToBoolean, the test of x || '0'
Truthy(x) ==
    CASE x.t \in {"undefined", "null", "NaN"} -> FALSE
      [] x.t = "string" -> x.v # ""
      [] x.t = "number" -> x.v # 0
      [] x.t = "boolean" -> x.v
      [] OTHER -> TRUE

\* String(x) for a value that passed the test: a number in decimal notation,
\* an array as its elements joined by commas, an object as [object Object]
RECURSIVE JsString(_)
JsString(x) ==
    CASE x.t = "string" -> x.v
      [] x.t = "number" ->
           LET a == Abs(x.v)
               frac == a % 1000
               digits == IF frac = 0 THEN ""
                         ELSE IF frac % 100 = 0 THEN "." \o ToString(frac \div 100)
                         ELSE IF frac % 10 = 0
                              THEN (IF frac < 100 THEN ".0" ELSE ".") \o ToString(frac \div 10)
                         ELSE (IF frac < 10 THEN ".00" ELSE IF frac < 100 THEN ".0" ELSE ".")
                                  \o ToString(frac)
           IN (IF x.v < 0 THEN "-" ELSE "") \o ToString(a \div 1000) \o digits
      [] x.t = "boolean" -> IF x.v THEN "true" ELSE "false"
      [] x.t = "array" ->
           IF Len(x.v) = 0 THEN ""
           ELSE LET one(e) == IF e.t \in {"undefined", "null"} THEN "" ELSE JsString(e)
                IN IF Len(x.v) = 1 THEN one(x.v[1])
                   ELSE one(x.v[1]) \o "," \o JsString(Arr(Tail(x.v)))
      [] x.t = "object" -> "[object Object]"
      [] x.t = "NaN" -> "NaN"
      [] OTHER -> x.t

\* the number of decimal digits str has from position i on
RECURSIVE DigitRun(_, _)
DigitRun(str, i) ==
    IF i <= Len(str) /\ SubSeq(str, i, i) \in {ToString(d) : d \in 0..9}
    THEN 1 + DigitRun(str, i + 1) ELSE 0

\* the value of a string of decimal digits
RECURSIVE DigitsValue(_)
DigitsValue(str) ==
    IF str = "" THEN 0
    ELSE 10 * DigitsValue(SubSeq(str, 1, Len(str) - 1))
            + (CHOOSE d \in 0..9 : ToString(d) = SubSeq(str, Len(str), Len(str)))

\* the position of the first character after leading blanks and a sign, and
\* the sign
NumberStart(str) ==
    LET RECURSIVE blanks(_)
        blanks(i) == IF i <= Len(str) /\ SubSeq(str, i, i) = " " THEN blanks(i + 1) ELSE i
        b == blanks(1)
        signed == b <= Len(str) /\ SubSeq(str, b, b) \in {"-", "+"}
    IN [at |-> IF signed THEN b + 1 ELSE b,
        sign |-> IF signed /\ SubSeq(str, b, b) = "-" THEN -1 ELSE 1]

\* parseFloat(str): the longest prefix that is a decimal literal (blanks,
\* sign, digits, fraction), NaN when there is none; decimals beyond the
\* third are dropped
parseFloat(str) ==
    LET st == NumberStart(str)
        n == DigitRun(str, st.at)
        dot == st.at + n <= Len(str) /\ SubSeq(str, st.at + n, st.at + n) = "."
        m == IF dot THEN DigitRun(str, st.at + n + 1) ELSE 0
        frac == SubSeq(str, st.at + n + 1, st.at + n + (IF m > 3 THEN 3 ELSE m))
        scale == IF m = 0 THEN 1000 ELSE IF m = 1 THEN 100 ELSE IF m = 2 THEN 10 ELSE 1
    IN IF n + m = 0 THEN NaN
       ELSE Num(st.sign * (1000 * DigitsValue(SubSeq(str, st.at, st.at + n - 1))
                             + scale * DigitsValue(frac)))

\* parseInt(str, 10): blanks, sign, digits; NaN when there is no digit
parseInt(str) ==
    LET st == NumberStart(str)
        n == DigitRun(str, st.at)
    IN IF n = 0 THEN NaN
       ELSE Num(st.sign * 1000 * DigitsValue(SubSeq(str, st.at, st.at + n - 1)))

\* parseFloat(String(x || '0')) and parseInt(String(x || '0'), 10)
FloatOf(x) == parseFloat(JsString(IF Truthy(x) THEN x ELSE Str("0")))
IntOf(x) == parseInt(JsString(IF Truthy(x) THEN x ELSE Str("0")))

\* getActionValue: 0 unless actions is an array; find reads a.action_type of
\* each element in turn, which throws a TypeError on null and undefined, and
\* stops at the first element whose action_type is the string actionType
getActionValue(actions, actionType) ==
    IF actions.t # "array" THEN Num(0)
    ELSE LET stops(i) ==
                 \/ actions.v[i].t \in {"undefined", "null"}
                 \/ /\ actions.v[i].t = "object"
                    /\ Get(actions.v[i].v, "action_type") = Str(actionType)
             at == {i \in 1..Len(actions.v) : stops(i)}
         IN IF at = {} THEN Num(0)
            ELSE LET found == actions.v[CHOOSE i \in at : \A j \in at : i <= j]
                 IN IF found.t # "object" THEN Threw
                    ELSE FloatOf(Get(found.v, "value"))

\* Math.round(x * 100) / 100
Round2(x) == IF x.t = "number" THEN Num(10 * MathRound(x.v, 10)) ELSE x

\* Math.round((num / den) * 100) / 100 whatever den is: no number when den
\* is 0
RatioOrZero_unguarded(num, den) ==
    IF den.t = "number" /\ den.v > 0 /\ num.t = "number"
    THEN Num(10 * MathRound(100 * num.v, den.v))
    ELSE NaN

\* den > 0 ? Math.round((num / den) * 100) / 100 : 0
RatioOrZero(num, den) ==
    IF den.t = "number" /\ den.v > 0
    THEN (IF num.t = "number" THEN Num(10 * MathRound(100 * num.v, den.v)) ELSE NaN)
    ELSE Num(0)

\* calcDerivedMetrics(row) for a row of any shape: the bundle, or Threw
CalcDerivedMetrics(row) ==
    LET spend == FloatOf(Get(row, "spend"))
        purchases == getActionValue(Get(row, "actions"), "purchase")
        addToCarts == getActionValue(Get(row, "actions"), "add_to_cart")
        initiateCheckouts == getActionValue(Get(row, "actions"), "initiate_checkout")
        viewContents == getActionValue(Get(row, "actions"), "view_content")
        leads == getActionValue(Get(row, "actions"), "lead")
        revenue == getActionValue(Get(row, "action_values"), "purchase")
    IN IF Threw \in {purchases, addToCarts, initiateCheckouts, viewContents, leads, revenue}
       THEN Threw
       ELSE [spend |-> Round2(spend),
             impressions |-> IntOf(Get(row, "impressions")),
             clicks |-> IntOf(Get(row, "clicks")),
             reach |-> IntOf(Get(row, "reach")),
             frequency |-> Round2(FloatOf(Get(row, "frequency"))),
             ctr |-> Round2(FloatOf(Get(row, "ctr"))),
             cpc |-> Round2(FloatOf(Get(row, "cpc"))),
             cpm |-> Round2(FloatOf(Get(row, "cpm"))),
             unique_clicks |-> IntOf(Get(row, "unique_clicks")),
             purchases |-> purchases,
             revenue |-> Round2(revenue),
             roas |-> RatioOrZero(revenue, spend),
             cpa |-> RatioOrZero(spend, purchases),
             add_to_carts |-> addToCarts,
             cost_per_atc |-> RatioOrZero(spend, addToCarts),
             initiate_checkouts |-> initiateCheckouts,
             view_contents |-> viewContents,
             leads |-> leads]

REDUNDANT_ACTION_PREFIXES ==
    {"omni_", "onsite_web_app_", "onsite_web_", "onsite_app_",
     "web_app_in_store_", "offsite_conversion.fb_pixel_"}

\* the callback of filter, for an element that is not null or undefined:
\* !PREFIXES.some((p) => String(a.action_type || '').startsWith(p))
KeepsAction(a) ==
    LET type == IF a.t = "object" THEN Get(a.v, "action_type") ELSE Undefined
        str == JsString(IF Truthy(type) THEN type ELSE Str(""))
    IN ~\E p \in REDUNDANT_ACTION_PREFIXES :
           Len(str) >= Len(p) /\ SubSeq(str, 1, Len(p)) = p

\* r[field] = r[field].filter(...) when r[field] is an array; reading
\* a.action_type of a null or undefined element throws a TypeError
StripField(x) ==
    IF x.t # "array" THEN x
    ELSE IF \E i \in 1..Len(x.v) : x.v[i].t \in {"undefined", "null"} THEN Threw
    ELSE Arr(SelectSeq(x.v, KeepsAction))

\* the callback of obj.data.map: a row that is not an object is returned as
\* it is (an array is an object without these fields)
StripRow(row) ==
    IF row.t # "object" THEN row
    ELSE LET out == [f \in DOMAIN row.v |->
                       IF f \in {"actions", "action_values", "cost_per_action_type", "conversions"}
                       THEN StripField(row.v[f]) ELSE row.v[f]]
         IN IF \E f \in DOMAIN out : out[f] = Threw THEN Threw ELSE Obj(out)

stripRedundantActions(data) ==
    IF data.t # "object" \/ Get(data.v, "data").t # "array" THEN data
    ELSE LET rows == [i \in 1..Len(data.v.data.v) |-> StripRow(data.v.data.v[i])]
         IN IF \E i \in 1..Len(rows) : rows[i] = Threw THEN Threw
            ELSE Obj([data.v EXCEPT !.data = Arr(rows)])

\* The longest actions list of a row.
MaxActions == 2

\* an entry of an actions list
Action(type, value) == Obj([action_type |-> Str(type), value |-> Str(value)])

\* the entries a row of the model may hold: tracked actions with whole and
\* fractional values, an entry without a value, one without an action_type,
\* a redundant duplicate, and null
ActionEntries ==
    {Action("purchase", "2"), Action("purchase", "2.5"), Action("omni_purchase", "3"),
     Obj([action_type |-> Str("add_to_cart")]), Obj([value |-> Str("1")]), JsNull}

\* the values a field of a row may have: absent, null, strings that parse,
\* parse in part or do not parse, numbers, a boolean, an array, an object
FieldValues ==
    {Undefined, JsNull, Str(""), Str("0"), Str("12.5"), Str("0.004"), Str(" -3"),
     Str("abc"), Num(0), Num(2504), [t |-> "boolean", v |-> TRUE], Arr(<<>>),
     Obj([value |-> Str("1")])}

\* the rows calcDerivedMetrics is applied to
MetricRows ==
    {[spend |-> s, impressions |-> i, clicks |-> i, reach |-> i, unique_clicks |-> i,
      ctr |-> f, cpc |-> f, cpm |-> f, frequency |-> f,
      actions |-> a, action_values |-> av] :
        s \in FieldValues,
        i \in {Undefined, Str("12.5"), Str("abc")},
        f \in {Str("12.5"), JsNull, Num(7004)},
        a \in {Arr(l) : l \in SeqsUpTo(ActionEntries, MaxActions)} \cup {Str("purchase")},
        av \in {Undefined, Arr(<<>>), Arr(<<Action("purchase", "25.555")>>),
                Arr(<<Action("purchase", "x")>>), Arr(<<JsNull>>)}}

\* the payloads stripRedundantActions is applied to: payloads that are not
\* objects or have no data array, and payloads of one or two rows, whose
\* lists also hold an entry under each redundant prefix and one whose
\* action_type only resembles a prefix
StripPayloads ==
    {JsNull, Str("x"), Arr(<<>>), Obj([paging |-> Str("p")]), Obj([data |-> Str("x")])}
        \cup {Obj([data |-> Arr(<<Obj([spend |-> Str("1"), actions |-> Arr(l), conversions |-> c])>> \o more),
                   paging |-> Str("p")]) :
                 l \in SeqsUpTo(ActionEntries
                                 \cup {Action(p \o "purchase", "1") : p \in REDUNDANT_ACTION_PREFIXES}
                                 \cup {Action("omnipurchase", "1")}, MaxActions),
                 c \in {Undefined, Str("x"), Arr(<<JsNull>>),
                       Arr(<<Action("omni_purchase", "3"), Action("lead", "1")>>)},
                 more \in {<<>>, <<JsNull>>, <<Str("row")>>,
                           <<Obj([actions |-> Arr(<<Action("purchase", "2"), Action("omni_purchase", "3")>>)])>>}}

CallCalcDerivedMetrics ==
    /\ rpc = "called"
    /\ arg.fn = "calcDerivedMetrics"
    /\ rpc' = "done"
    /\ res' = CalcDerivedMetrics(arg.row)
    /\ UNCHANGED <<arg, slots>>
    /\ UNCHANGED <<fanout, cache>>

CallStripRedundantActions ==
    /\ rpc = "called"
    /\ arg.fn = "stripRedundantActions"
    /\ rpc' = "done"
    /\ res' = stripRedundantActions(arg.data)
    /\ UNCHANGED <<arg, slots>>
    /\ UNCHANGED <<fanout, cache>>

InitMetrics ==
    /\ \/ \E row \in MetricRows : arg = [fn |-> "calcDerivedMetrics", row |-> row]
       \/ \E data \in StripPayloads : arg = [fn |-> "stripRedundantActions", data |-> data]
    /\ res = NotRun /\ rpc = "called" /\ slots = <<>>
    /\ ids = <<>> /\ retries = MAX_RETRIES /\ hpc = "off" /\ calls = <<>>
    /\ output = <<>> /\ overtaken = FALSE
    /\ cachedAccountId = NoAccountId /\ writes = <<>> /\ getters = <<>>

NextMetrics ==
    \/ CallCalcDerivedMetrics
    \/ CallStripRedundantActions

SpecMetrics == InitMetrics /\ [][NextMetrics]_vars

\* C23: calcDerivedMetrics is total: for every row, whatever its fields hold
\* (absent, of any type, lists with entries of any shape, null included), it
\* returns a metrics bundle and never throws.
C23_Total ==
    (rpc = "done" /\ arg.fn = "calcDerivedMetrics") => res # Threw

\* C24: for every row, every field of the bundle calcDerivedMetrics returns
\* is a defined number and not NaN.
C24_NoNaN ==
    (rpc = "done" /\ arg.fn = "calcDerivedMetrics" /\ res # Threw) =>
        \A f \in DOMAIN res : res[f].t = "number"

\* the rows whose spend is zero: absent, null, empty, "0" or 0
ZeroSpend == arg.row.spend \in {Undefined, JsNull, Str(""), Str("0"), Num(0)}

\* C25: division-by-zero safety: a row with spend 0 has roas 0 and cpa 0, a
\* row with purchases 0 has cpa 0, a row with add_to_carts 0 has cost_per_atc 0.
C25_DivisionSafe ==
    (rpc = "done" /\ arg.fn = "calcDerivedMetrics" /\ res # Threw) =>
        /\ ZeroSpend => res.roas = Num(0) /\ res.cpa = Num(0)
        /\ res.purchases = Num(0) => res.cpa = Num(0)
        /\ res.add_to_carts = Num(0) => res.cost_per_atc = Num(0)

\* a row with revenue and purchases but spend 0 and no add to cart
C25_Witness ==
    /\ rpc = "done" /\ arg.fn = "calcDerivedMetrics" /\ res # Threw
    /\ ZeroSpend
    /\ res.revenue.t = "number" /\ res.revenue.v > 0
    /\ res.purchases.t = "number" /\ res.purchases.v > 0
    /\ res.add_to_carts = Num(0)

\* C26: the count fields of every bundle are integers.
C26_CountsAreIntegers ==
    (rpc = "done" /\ arg.fn = "calcDerivedMetrics" /\ res # Threw) =>
        \A f \in {"impressions", "clicks", "reach", "unique_clicks", "purchases",
                  "add_to_carts", "initiate_checkouts", "view_contents", "leads"} :
            res[f].t = "number" => res[f].v % 1000 = 0

\* an entry whose action_type is a string that starts with a redundant prefix
HasRedundantType(a) ==
    /\ a.t = "object" /\ "action_type" \in DOMAIN a.v /\ a.v.action_type.t = "string"
    /\ \E n \in 0..Len(a.v.action_type.v) :
           SubSeq(a.v.action_type.v, 1, n) \in REDUNDANT_ACTION_PREFIXES

KeptEntry(a) == ~HasRedundantType(a)

\* C27: stripRedundantActions removes from the lists actions, action_values,
\* cost_per_action_type and conversions of every row exactly the entries
\* whose action_type starts with one of the six prefixes; the other entries
\* stay in their order, and every other field of the row and of the payload
\* is unchanged.
C27_StripsExactly ==
    (/\ rpc = "done" /\ arg.fn = "stripRedundantActions"
     /\ arg.data.t = "object" /\ Get(arg.data.v, "data").t = "array") =>
        /\ res # Threw
        /\ res.t = "object" /\ DOMAIN res.v = DOMAIN arg.data.v
        /\ \A k \in DOMAIN res.v \ {"data"} : res.v[k] = arg.data.v[k]
        /\ res.v.data.t = "array" /\ Len(res.v.data.v) = Len(arg.data.v.data.v)
        /\ \A i \in 1..Len(arg.data.v.data.v) :
               LET row == arg.data.v.data.v[i]
                   out == res.v.data.v[i]
               IN IF row.t # "object" THEN out = row
                  ELSE /\ out.t = "object" /\ DOMAIN out.v = DOMAIN row.v
                       /\ \A f \in DOMAIN row.v :
                              IF /\ f \in {"actions", "action_values",
                                           "cost_per_action_type", "conversions"}
                                 /\ row.v[f].t = "array"
                              THEN out.v[f] = Arr(SelectSeq(row.v[f].v, KeptEntry))
                              ELSE out.v[f] = row.v[f]

\* ---------------------------------------------------------------------
\* getAccountId: the cached ad account id under concurrent first use
\* ---------------------------------------------------------------------

\* The number of getAccountId invocations of a process.
MaxGetters == 3

\* the ids /me/adaccounts may answer with as data[0].id
AccountIds == {"act_1", "act_2"}

\* the data of an answer: no account, or one (limit: '1')
AccountData == {<<>>} \cup {<<id>> : id \in AccountIds}

\* a handler calls getAccountId: it returns the cached id when there is
\* one, and otherwise sends the /me/adaccounts request and awaits it
GetAccountIdCalled(g) ==
    /\ getters[g].pc = "not called"
    /\ getters' = [getters EXCEPT ![g] =
                     IF cachedAccountId # NoAccountId
                     THEN [pc |-> "returned", id |-> cachedAccountId]
                     ELSE [pc |-> "awaiting", id |-> NoAccountId]]
    /\ UNCHANGED <<cachedAccountId, writes>>
    /\ UNCHANGED <<fanout, arg, res, rpc, slots>>

\* graphGet resolves with data: without an account the call throws,
\* otherwise it assigns the cache and returns the id
GraphGetResolved(g, data) ==
    /\ getters[g].pc = "awaiting"
    /\ IF Len(data) = 0
       THEN /\ getters' = [getters EXCEPT ![g].pc = "threw: no ad accounts"]
            /\ UNCHANGED <<cachedAccountId, writes>>
       ELSE /\ cachedAccountId' = data[1]
            /\ writes' = Append(writes, data[1])
            /\ getters' = [getters EXCEPT ![g] = [pc |-> "returned", id |-> data[1]]]
    /\ UNCHANGED <<fanout, arg, res, rpc, slots>>

\* graphGet rejects (a terminal failure or the retries are used up)
GraphGetRejected(g) ==
    /\ getters[g].pc = "awaiting"
    /\ getters' = [getters EXCEPT ![g].pc = "threw: request failed"]
    /\ UNCHANGED <<cachedAccountId, writes>>
    /\ UNCHANGED <<fanout, arg, res, rpc, slots>>

InitCache ==
    /\ cachedAccountId = NoAccountId
    /\ writes = <<>>
    /\ getters = [g \in 1..MaxGetters |-> [pc |-> "not called", id |-> NoAccountId]]
    /\ arg = NotRun /\ res = NotRun /\ rpc = "off" /\ slots = <<>>
    /\ ids = <<>> /\ retries = MAX_RETRIES /\ hpc = "off" /\ calls = <<>>
    /\ output = <<>> /\ overtaken = FALSE

NextCache ==
    \/ \E g \in 1..MaxGetters : GetAccountIdCalled(g)
    \/ \E g \in 1..MaxGetters, data \in AccountData : GraphGetResolved(g, data)
    \/ \E g \in 1..MaxGetters : GraphGetRejected(g)

SpecCache == InitCache /\ [][NextCache]_vars

\* C28: the cached account id is populated at most once in the life of a
\* process, over every interleaving of getAccountId calls, first-use calls
\* that start while the cache is still empty included.
C28_WrittenOnce == Len(writes) <= 1

\* ---------------------------------------------------------------------
\* The backoff of graphRequest
\* ---------------------------------------------------------------------

\* C29: under the shipped policy (retries = MAX_RETRIES) a request is
\* retried at most 2 times, and the delay before each retry is double the
\* delay before the previous retry.
C29_ShippedBackoff ==
    retries = MAX_RETRIES =>
        \A i \in Idx :
            /\ calls[i].nFetch <= 1 + 2
            /\ Len(calls[i].sleeps) <= 2
            /\ \A k \in 2..Len(calls[i].sleeps) :
                   calls[i].sleeps[k] = 2 * calls[i].sleeps[k - 1]

\* three responses with a status >= 500, two retries between them
C29_Witness ==
    /\ retries = MAX_RETRIES
    /\ \E i \in Idx :
           /\ Raised(i) /\ calls[i].only5xx /\ calls[i].error.statusCode = 500
           /\ calls[i].nFetch = 3
           /\ Len(calls[i].sleeps) = 2

\* the attempt of call i ends in this step
AttemptEnds(i) == calls[i].event = "none" /\ calls'[i].event # "none"

C33_DeadlineArmed ==
    \A i \in Idx : calls[i].pc \in {"fetch", "body"} => calls[i].timer

\* C34: graphRequest raises an ApiError with statusCode 408 if and only if
\* the deadline of an attempt expired.
C34_TimeoutSentinel ==
    \A i \in Idx :
        /\ calls[i].aborted => Raised(i)
        /\ Raised(i) => (calls[i].error.statusCode = 408 <=> calls[i].aborted)

\* C36: a response is classified by its status whether or not its body
\* parses: whatever res.json() does, a 4xx response ends the call at once
\* with its status, a 5xx response is retried while attempts remain and is
\* then raised with its status, and a 2xx response is never retried.
C36_StatusDecides ==
    [][\A i \in Idx :
         (calls[i].pc = "body" /\ Stepped(i)) =>
            /\ (calls[i].status >= 400 /\ calls[i].status <= 499) =>
                  /\ calls'[i].pc = "raised"
                  /\ calls'[i].error.statusCode = calls[i].status
            /\ calls[i].status >= 500 =>
                  IF calls[i].attempt < retries
                  THEN calls'[i].pc = "sleep"
                  ELSE /\ calls'[i].pc = "raised"
                       /\ calls'[i].error.statusCode = calls[i].status
            /\ (calls[i].status >= 200 /\ calls[i].status <= 299) =>
                  calls'[i].pc # "sleep"]_vars

\* ---------------------------------------------------------------------
\* generate_report: the fetches it issues
\* ---------------------------------------------------------------------

\* the fetch of a slot, without its settled state
FetchOf(slot) ==
    [level |-> slot.level, time_range |-> slot.time_range,
     time_increment |-> slot.time_increment]

\* the fetches the claim names, in the order of the slots
ExpectedFetches ==
    LET current == resolveDateRange(arg.time_range, arg.now, arg.zone)
        previous == getPreviousPeriod(current.since, current.until, arg.zone)
        fetch(level, range, inc) ==
            [level |-> level, time_range |-> range, time_increment |-> inc]
    IN <<fetch("account", current, 0), fetch("campaign", current, 0),
         fetch("account", current, 1)>>
         \o (IF arg.compare_previous
             THEN <<fetch("account", previous, 0), fetch("campaign", previous, 0)>>
             ELSE <<>>)

\* C31: generate_report issues exactly 3 fetches without compare_previous
\* (current aggregate, current per-campaign, current daily) and exactly 5
\* with it (adding previous aggregate and previous per-campaign), all of
\* them before any result is awaited; the two previous-period fetches ask
\* for getPreviousPeriod(current range); and each part of the report is
\* read from the slot of its own fetch, in whatever order the fetches settle.
C31_Fetches ==
    /\ [](rpc = "start" => slots = <<>>)
    /\ [](rpc \in {"awaiting", "done"} =>
            /\ Len(slots) = (IF arg.compare_previous THEN 5 ELSE 3)
            /\ [k \in 1..Len(slots) |-> FetchOf(slots[k])] = ExpectedFetches)
    /\ [](rpc = "done" =>
            /\ res.account_summary =
                  (IF Len(Extract(slots[1])) > 0
                   THEN calcDerivedMetrics(Extract(slots[1])[1]) ELSE Null)
            /\ Len(res.daily_breakdown) = Len(Extract(slots[3]))
            /\ \A i \in 1..Len(res.by_campaign) :
                  \E j \in 1..Len(Extract(slots[2])) :
                     Extract(slots[2])[j].campaign_id = res.by_campaign[i].campaign_id
            /\ res.period_comparison # Null =>
                  /\ arg.compare_previous /\ Len(Extract(slots[4])) > 0
                  /\ res.period_comparison.previous_period.metrics =
                        calcDerivedMetrics(Extract(slots[4])[1])
            /\ \A i \in 1..Len(res.by_campaign) :
                  ("vs_previous" \in DOMAIN res.by_campaign[i]
                     /\ res.by_campaign[i].vs_previous # Null) =>
                        \E j \in 1..Len(Extract(slots[5])) :
                           Extract(slots[5])[j].campaign_id = res.by_campaign[i].campaign_id)
    /\ [][/\ (rpc = "start" /\ rpc' = "awaiting") =>
                \A k \in 1..Len(slots') : slots'[k].state = "pending"
          /\ rpc = "awaiting" =>
                [k \in 1..Len(slots') |-> FetchOf(slots'[k])]
                    = [k \in 1..Len(slots) |-> FetchOf(slots[k])]]_vars

\* the report of a comparison for 2025-03-08..2025-03-14: five fetches, the
\* previous ones for 2025-03-01..2025-03-07, a period comparison and campaigns
C31_Witness ==
    /\ rpc = "done" /\ arg.compare_previous /\ Len(slots) = 5
    /\ slots[4].time_range = [since |-> [year |-> 2025, month |-> 3, day |-> 1],
                              until |-> [year |-> 2025, month |-> 3, day |-> 7]]
    /\ slots[5].time_range = slots[4].time_range
    /\ res.period_comparison # Null
    /\ Len(res.by_campaign) > 0

\* ---------------------------------------------------------------------
\* The diagnostic log of graphRequest
\* ---------------------------------------------------------------------

\* C32: graphRequest emits a log event before every retry and before every
\* error it raises (terminal 4xx, exhausted 5xx, exhausted network error,
\* timeout): no attempt ends in a sleep or in a raise without a log event
\* of that attempt.
C32_LoggedBeforeRaise ==
    \A i \in Idx : calls[i].pc \in {"sleep", "raised"} => calls[i].logged # <<>>

\* ---------------------------------------------------------------------
\* Termination of graphRequest and of the two fan-out handlers
\* ---------------------------------------------------------------------

\* one status of each class graphRequest tells apart: ok, neither ok nor
\* a client error below 400, client error, server error
LiveStatuses == {200, 300, 400, 500}

\* a bulk_get_insights call or a generate_report call
InitLive == Init \/ InitReport

\* the steps the environment and the event loop owe the program: a request
\* resolves, rejects or is aborted by its deadline, a sleep elapses, a
\* pushed call of the report settles (with a payload without rows or with a
\* rejection), a handler continues
Scheduled ==
    \/ IssueAll
    \/ \E i \in Idx, s \in LiveStatuses : FetchResolves(i, s)
    \/ \E i \in Idx : FetchRejects(i)
    \/ \E i \in Idx : DeadlineFires(i)
    \/ \E i \in Idx : SleepElapses(i)
    \/ Aggregate
    \/ AccountResolved
    \/ AccountFails
    \/ \E k \in DOMAIN slots :
          \E how \in {h \in SettledAs(k) :
                        "data" \in DOMAIN h.value => Len(h.value.data) = 0} :
             CallSettles(k, how)
    \/ Assemble

\* the scheduled steps and the end of a body read (await res.json(), line
\* 64), which runs after clearTimeout (line 36) and has no deadline
NextLive ==
    \/ Scheduled
    \/ \E i \in Idx : BodyParsed(i)
    \/ \E i \in Idx : BodyFails(i)

\* the positions and the calls: every step of NextLive changes one of them
progress == <<hpc, calls, rpc, slots>>

\* as long as a scheduled step is possible, a scheduled step is taken
Fairness == WF_progress(Scheduled)

SpecLive == InitLive /\ [][NextLive]_vars /\ Fairness

\* the handler has returned its result or raised its error
Finished == hpc = "done" \/ rpc \in {"done", "failed"}

\* C38: every graphRequest returns or raises after at most retries + 1
\* attempts, for every mix of outcomes, and every bulk_get_insights and
\* generate_report call eventually returns: bulk_get_insights with all of
\* its calls settled, generate_report with its report unless it raised
\* before any fetch was issued.
C38_Terminates ==
    /\ [](\A i \in Idx : calls[i].nFetch <= retries + 1)
    /\ [](hpc = "done" => \A i \in Idx : Settled(calls[i]))
    /\ [](rpc = "failed" => slots = <<>>)
    /\ [](rpc = "done" => \A k \in DOMAIN slots : slots[k].state # "pending")
    /\ <>Finished

\* ====================================================================
\* resolveDateRange against the calendar of one zone
\* ====================================================================
\* the range of a preset or of last_<N>d on whole calendar days, today being
\* the day number of the current date
CalendarRange(str, today) ==
    LET monday == today - ((today + 3) % 7)
        c == CivilFromDays(today)
        first == DaysFromCivil(c.year, c.month, 1)
        before == CivilFromDays(first - 1)
        n == MatchLastNd(str)
        days(a, b) == [since |-> CivilFromDays(a), until |-> CivilFromDays(b)]
    IN CASE str = "today" -> days(today, today)
       [] str = "yesterday" -> days(today - 1, today - 1)
       [] str = "this_week" -> days(monday, today)
       [] str = "last_week" -> days(monday - 7, monday - 1)
       [] str = "this_month" -> days(first, today)
       [] str = "last_month" ->
            days(DaysFromCivil(before.year, before.month, 1), first - 1)
       [] OTHER -> days(today - n, today - 1)

\* -------------------------------------------------------------------- C35
\* C35: at every instant and in every process time zone, each preset and
\* each last_<N>d string resolves to the range of the calendar of that zone:
\* the current date is the date the zone's wall clock shows, and the week,
\* the month, the day arithmetic and the formatting are taken on that same
\* calendar.
C35_OneZone ==
    (rpc = "done" /\ arg.fn = "resolveDateRange" /\ "symbol" \in DOMAIN arg.time_range
        /\ (arg.time_range.symbol \in Presets \/ MatchLastNd(arg.time_range.symbol) >= 1)) =>
        res = CalendarRange(arg.time_range.symbol, LocalTime(arg.zone, arg.now) \div 24)

\* ====================================================================
\* The cache protocol of getAccountId
\* ====================================================================
\* call g starts in this step
Starts(g) == getters[g].pc = "not called" /\ getters'[g].pc # "not called"

\* call g ends in this step with an error
Fails(g) == getters[g].pc = "awaiting" /\ getters'[g].pc \notin {"awaiting", "returned"}

\* a call that starts after the id was resolved returns the id resolved
\* first, without a request
C37_LaterCallsHit ==
    \A g \in 1..MaxGetters :
        (Starts(g) /\ writes # <<>>) => getters'[g] = [pc |-> "returned", id |-> writes[1]]

\* once set, the cached value never changes
C37_NeverChanges == cachedAccountId # NoAccountId => cachedAccountId' = cachedAccountId

\* a failed resolution leaves the cache as it was, and a call that starts
\* on an empty cache sends the request
C37_FailureLeavesEmpty ==
    \A g \in 1..MaxGetters :
        /\ Fails(g) => cachedAccountId' = cachedAccountId
        /\ (Starts(g) /\ cachedAccountId = NoAccountId) => getters'[g].pc = "awaiting"

\* -------------------------------------------------------------------- C37
\* C37: after a call has resolved the account id, every call that starts
\* later returns that id without a request and the cached value never
\* changes; a failed resolution leaves the cache empty and a later call
\* looks the id up again.
C37_CacheProtocol ==
    [][C37_LaterCallsHit /\ C37_NeverChanges /\ C37_FailureLeavesEmpty]_vars

\* ====================================================================
\* The tool-call dispatcher (the CallToolRequestSchema handler)
\* ====================================================================
\* three of the tools of the table, in the order of the table
Tools == <<"get_insights", "bulk_get_insights", "generate_report">>

\* strs.join(sep)
RECURSIVE Join(_, _)
Join(strs, sep) ==
    IF Len(strs) = 0 THEN ""
    ELSE IF Len(strs) = 1 THEN strs[1]
    ELSE strs[1] \o sep \o Join(Tail(strs), sep)

\* success(data): text is JSON.stringify(data, null, 2)
success(text) == [content |-> <<[type |-> "text", text |-> text]>>]

errorResult(message) ==
    [content |-> <<[type |-> "text", text |-> "Error: " \o message]>>, isError |-> TRUE]

\* the ways the promise of tool.handler(args) settles: with a result, or
\* with what the handler threw -- a ZodError of zodSchema.parse, an
\* ApiError, another Error, or a value that is not an Error
HandlerOutcomes ==
    LET required == [path |-> <<"time_range">>, message |-> "Required"]
        nested == [path |-> <<"object_ids", "0">>, message |-> "Expected string, received number"]
        root == [path |-> <<>>, message |-> "Invalid input"]
    IN {[state |-> "fulfilled", value |-> success(t)] : t \in {"{}", "[]"}}
       \cup {[state |-> "rejected",
              reason |-> [kind |-> "ZodError", message |-> "[zod issues]", issues |-> i]] :
                i \in {<<required>>, <<required, nested>>, <<root>>}}
       \cup {[state |-> "rejected",
              reason |-> [kind |-> "ApiError", message |-> m, statusCode |-> c]] :
                m \in {"Invalid OAuth access token", "Network error: fetch failed"},
                c \in {0, 400, 403, 408, 500}}
       \cup {[state |-> "rejected", reason |-> [kind |-> "TypeError", message |-> m]] :
                m \in {"Cannot read properties of null (reading 'action_type')",
                       "fetch failed"}}
       \cup {[state |-> "rejected", reason |-> [kind |-> "string", v |-> "aborted"]]}

\* a catch that lets everything but an ApiError pass
Catches_apiErrorsOnly(how) == how.state = "rejected" /\ how.reason.kind = "ApiError"

\* try { ... await tool.handler(args) ... } catch (err): every rejection of
\* the awaited promise enters the catch block
Catches(how) == how.state = "rejected"

\* the result the catch block returns for err
Caught(err) ==
    LET message == IF err.kind # "string" THEN err.message ELSE err.v
        issue(i) == Join(i.path, ".") \o ": " \o i.message
    IN IF err.kind = "ZodError"
       THEN errorResult("Invalid arguments: "
                \o Join([k \in 1..Len(err.issues) |-> issue(err.issues[k])], "; "))
       ELSE IF err.kind = "ApiError"
       THEN errorResult("API error (" \o ToString(err.statusCode) \o "): " \o message)
       ELSE errorResult(message)

\* the request arrives: an unknown tool is answered at once, otherwise the
\* call is logged and the handler is called with rawArgs ?? {}
ToolCalled ==
    /\ rpc = "received"
    /\ IF \E i \in 1..Len(Tools) : Tools[i] = arg.name
       THEN /\ rpc' = "awaiting"
            /\ output' = Append(output,
                  [level |-> "info", message |-> "Calling tool: " \o arg.name,
                   data |-> IF arg.arguments \in {Undefined, JsNull}
                            THEN [t |-> "object", v |-> <<>>]
                            ELSE arg.arguments])
            /\ res' = res
       ELSE /\ rpc' = "done"
            /\ res' = errorResult("Unknown tool \"" \o arg.name \o "\". Available: "
                                     \o Join(Tools, ", "))
            /\ output' = output
    /\ UNCHANGED <<arg, slots, ids, retries, hpc, calls, overtaken, cache>>

\* the promise of the handler settles
HandlerSettles(how) ==
    /\ rpc = "awaiting"
    /\ rpc' = "settled"
    /\ slots' = <<how>>
    /\ UNCHANGED <<arg, res, fanout, cache>>

\* the dispatcher resumes after the await: it returns the handler's result,
\* or the catch block logs and returns an error result; a rejection the
\* catch does not take leaves the dispatcher as an exception
Resumes ==
    /\ rpc = "settled"
    /\ LET how == slots[1] IN
       IF how.state = "fulfilled"
       THEN /\ rpc' = "done"
            /\ res' = how.value
            /\ output' = Append(output,
                  [level |-> "info", message |-> "Tool " \o arg.name \o " completed"])
       ELSE IF Catches(how)
       THEN /\ rpc' = "done"
            /\ res' = Caught(how.reason)
            /\ output' = Append(output,
                  [level |-> "error", message |-> "Tool " \o arg.name \o " failed"])
       ELSE /\ rpc' = "escaped"
            /\ res' = how.reason
            /\ output' = output
    /\ UNCHANGED <<arg, slots, ids, retries, hpc, calls, overtaken, cache>>

InitDispatch ==
    /\ \E name \in {Tools[i] : i \in 1..Len(Tools)} \cup {"get_insight"},
          arguments \in {Undefined, Obj([time_range |-> Str("last_7d")])} :
          arg = [name |-> name, arguments |-> arguments]
    /\ res = NotRun /\ rpc = "received" /\ slots = <<>>
    /\ ids = <<>> /\ retries = MAX_RETRIES /\ hpc = "off" /\ calls = <<>>
    /\ output = <<>> /\ overtaken = FALSE
    /\ cachedAccountId = NoAccountId /\ writes = <<>> /\ getters = <<>>

NextDispatch ==
    \/ ToolCalled
    \/ \E how \in HandlerOutcomes : HandlerSettles(how)
    \/ Resumes

SpecDispatch == InitDispatch /\ [][NextDispatch]_vars

\* the text of a result
TextOf(result) == result.content[1].text

StartsWith(str, prefix) ==
    Len(str) >= Len(prefix) /\ SubSeq(str, 1, Len(prefix)) = prefix

\* -------------------------------------------------------------------- C39
\* C39: no exception leaves the dispatcher. It returns an error result
\* (isError = true) for an unknown tool, 'Invalid arguments: ...' when the
\* validation of the arguments fails, 'API error (<status>): ...' when the
\* handler raises an ApiError, the message of anything else the handler
\* raises, and the handler's own result when it returns one.
C39_NeverEscapes ==
    /\ rpc # "escaped"
    /\ rpc = "done" =>
         IF slots = <<>>
         THEN /\ \A i \in 1..Len(Tools) : Tools[i] # arg.name
              /\ res.isError /\ StartsWith(TextOf(res), "Error: Unknown tool \"" \o arg.name \o "\"")
         ELSE LET how == slots[1] IN
              IF how.state = "fulfilled" THEN res = how.value
              ELSE /\ DOMAIN res = {"content", "isError"} /\ res.isError
                   /\ Len(res.content) = 1 /\ res.content[1].type = "text"
                   /\ CASE how.reason.kind = "ZodError" ->
                             /\ StartsWith(TextOf(res), "Error: Invalid arguments: ")
                             /\ Len(TextOf(res)) > Len("Error: Invalid arguments: ")
                        [] how.reason.kind = "ApiError" ->
                             TextOf(res) = "Error: API error (" \o ToString(how.reason.statusCode)
                                              \o "): " \o how.reason.message
                        [] how.reason.kind = "string" -> TextOf(res) = "Error: " \o how.reason.v
                        [] OTHER -> TextOf(res) = "Error: " \o how.reason.message

\* the handler raised a ZodError with two issues and the dispatcher
\* returned them as one error result
C39_Witness ==
    /\ rpc = "done" /\ slots # <<>> /\ slots[1].state = "rejected"
    /\ slots[1].reason.kind = "ZodError" /\ Len(slots[1].reason.issues) = 2
    /\ TextOf(res) = "Error: Invalid arguments: time_range: Required; object_ids.0: Expected string, received number"

\* ====================================================================
\* Compact mode and the tracked metrics
\* ====================================================================
\* the rows of a payload: the elements of its data array
RowsOf(data) ==
    IF data.t = "object" /\ Get(data.v, "data").t = "array" THEN data.v.data.v ELSE <<>>

\* -------------------------------------------------------------------- C40
\* C40: stripRedundantActions returns for every payload, stripping the
\* result again changes nothing, and calcDerivedMetrics gives the same
\* result for every row of the payload before and after stripping.
C40_CompactLosesNothing ==
    (rpc = "done" /\ arg.fn = "stripRedundantActions") =>
        /\ res # Threw
        /\ stripRedundantActions(res) = res
        /\ \A i \in 1..Len(RowsOf(arg.data)) :
               RowsOf(arg.data)[i].t = "object" =>
                   CalcDerivedMetrics(RowsOf(res)[i].v) = CalcDerivedMetrics(RowsOf(arg.data)[i].v)

====
